---- MODULE Spec2Model ----
(***************************************************************************)
(* Model of the e-commerce customer-support tool server:                   *)
(*   - MockDataStrategy  (src/mcp_server/strategies/mock_strategy.py)      *)
(*   - EcommerceMCPServer (src/mcp_server/server.py)                       *)
(*                                                                         *)
(* Conventions                                                             *)
(*   - A Python str is a sequence of string tokens.  Order ids are         *)
(*     sequences of one-character tokens, so endswith, upper, isdigit and  *)
(*     ord are computed character by character.                            *)
(*   - Optional values (X | None) are sequences: <<>> is None, <<v>> is v. *)
(*   - Money is in cents, time in hours.                                   *)
(*   - The clock is logical: every operation that reads datetime.now()     *)
(*     sees `now` and leaves the clock one tick later.                     *)
(***************************************************************************)
EXTENDS Integers, Sequences, FiniteSets, TLC

VARIABLES
    orders,        \* MockDataStrategy.orders  : dict order_id -> Order
    returns,       \* MockDataStrategy.returns : dict return_id -> Return
    now,           \* datetime.now(), in hours since construction
    ids,           \* the order ids the callers of this run use
    call,          \* the last completed call: operation, arguments, result
    prev_orders,   \* `orders` as it was when the last call started
    prev_returns,  \* `returns` as it was when the last call started
    first_lookup,  \* the record a get_order call synthesized and returned, while
                   \* no cancel_order or update_order_status call has followed
    cancelled_ids, \* the ids for which a cancel_order call has returned success
    tasks,         \* the concurrent cancel_order requests of the service: where
                   \* each coroutine stands (pc) and its local variables
    first_tracking \* per order id, the tracking number and carrier of the first
                   \* record get_order_tracking returned for it

vars == <<orders, returns, now, ids, call, prev_orders, prev_returns, first_lookup, cancelled_ids, tasks, first_tracking>>

----------------------------------------------------------------------------
(* Bounds *)

\* number of calls that read the clock in one run of the Data Strategy's callers
MaxNow == 3
\* number of calls that read the clock in one run of the Support Service's callers
MaxServiceNow == 2
\* number of Return records the returns store may hold
MaxReturns == 1

----------------------------------------------------------------------------
(* Strings *)

None == <<>>
Some(v) == <<v>>
IsNone(o) == Len(o) = 0

DigitChars == <<"0", "1", "2", "3", "4", "5", "6", "7", "8", "9">>
LowerChars == <<"a", "b", "c", "d", "e", "f", "g", "h", "i", "j", "k", "l", "m",
                "n", "o", "p", "q", "r", "s", "t", "u", "v", "w", "x", "y", "z">>
UpperChars == <<"A", "B", "C", "D", "E", "F", "G", "H", "I", "J", "K", "L", "M",
                "N", "O", "P", "Q", "R", "S", "T", "U", "V", "W", "X", "Y", "Z">>

IndexOf(c, cs) == CHOOSE i \in 1..Len(cs) : cs[i] = c
InSeq(c, cs) == \E i \in 1..Len(cs) : cs[i] = c

\* str.isdigit on one character
IsDigit(c) == InSeq(c, DigitChars)

\* str.upper
UpperChar(c) == IF InSeq(c, LowerChars) THEN UpperChars[IndexOf(c, LowerChars)] ELSE c
Upper(s) == [i \in 1..Len(s) |-> UpperChar(s[i])]

\* str.lower
LowerChar(c) == IF InSeq(c, UpperChars) THEN LowerChars[IndexOf(c, UpperChars)] ELSE c
Lower(s) == [i \in 1..Len(s) |-> LowerChar(s[i])]

\* ord on one character
Ord(c) ==
    IF InSeq(c, DigitChars) THEN 47 + IndexOf(c, DigitChars)
    ELSE IF InSeq(c, UpperChars) THEN 64 + IndexOf(c, UpperChars)
    ELSE IF InSeq(c, LowerChars) THEN 96 + IndexOf(c, LowerChars)
    ELSE 45

\* str.endswith
EndsWith(s, suffix) ==
    /\ Len(s) >= Len(suffix)
    /\ SubSeq(s, Len(s) - Len(suffix) + 1, Len(s)) = suffix

\* "".join(filter(str.isdigit, s))
DigitsOf(s) == SelectSeq(s, IsDigit)

\* int(s) for a non-empty string of digits
RECURSIVE ParseInt(_)
ParseInt(s) ==
    IF Len(s) = 0 THEN 0
    ELSE 10 * ParseInt(SubSeq(s, 1, Len(s) - 1)) + (IndexOf(s[Len(s)], DigitChars) - 1)

\* str(n) for n >= 0
RECURSIVE IntToStr(_)
IntToStr(n) ==
    IF n < 10 THEN <<DigitChars[n + 1]>>
    ELSE IntToStr(n \div 10) \o <<DigitChars[(n % 10) + 1]>>

\* sum(ord(c) for c in s)
RECURSIVE OrdSum(_)
OrdSum(s) == IF Len(s) = 0 THEN 0 ELSE Ord(s[1]) + OrdSum(Tail(s))

\* substring test on token level: the text holds the token
Contains(text, token) == \E i \in 1..Len(text) : text[i] = token

----------------------------------------------------------------------------
(* Order identifiers the callers use *)

ORD == <<"O", "R", "D", "-">>

\* f"ORD-{1000 + i}"
SeedId(i) == ORD \o IntToStr(1000 + i)
\* the seeded orders of the model: the first of the program's range(20)
SeedRange == {0}
SeedIds == {SeedId(i) : i \in SeedRange}

DynamicIds ==
    { ORD \o <<"9", "9", "9", "9">>,
      ORD \o <<"2", "0", "0", "1", "-", "D">>,
      ORD \o <<"2", "0", "0", "2", "-", "C">>,
      ORD \o <<"2", "0", "0", "3", "-", "S">>,
      ORD \o <<"2", "0", "0", "4", "-", "P">>,
      ORD \o <<"2", "0", "0", "5", "-", "F">>,
      ORD \o <<"2", "0", "0", "6", "-", "R">>,
      ORD \o <<"2", "0", "0", "7", "-", "T">>,
      ORD \o <<"2", "0", "0", "8", "-", "d">>,
      ORD \o <<"X", "-", "P">> }

ErrorIds ==
    { ORD \o <<"1", "2", "3", "4", "-", "E">>,
      ORD \o <<"E", "R", "R", "O", "R">>,
      <<"o", "r", "d", "-", "e", "r", "r", "o", "r">> }

OrderIds == SeedIds \cup DynamicIds \cup ErrorIds

----------------------------------------------------------------------------
(* Data model: src/mcp_server/strategies/base.py *)

Address(line_1, line_2, town, postcode, phone) ==
    [line_1 |-> line_1, line_2 |-> line_2, line_3 |-> "", town |-> town,
     postcode |-> postcode, country |-> "USA", phone |-> phone]

OrderEntry(entry_id, product_id, quantity, entry_amount, status) ==
    [entry_id |-> entry_id, product_id |-> product_id, quantity |-> quantity,
     entry_amount |-> entry_amount, status |-> status]

Order(order_id, customer_id, status, created_at, updated_at, entries, total_amount, shipping_address, billing_address, tracking_number) ==
    [order_id |-> order_id, customer_id |-> customer_id, status |-> status,
     created_at |-> created_at, updated_at |-> updated_at, entries |-> entries,
     total_amount |-> total_amount, shipping_address |-> shipping_address,
     billing_address |-> billing_address, tracking_number |-> tracking_number]

Return(return_id, order_id, reason, items, created_at, refund_amount) ==
    [return_id |-> return_id, order_id |-> order_id, status |-> "initiated",
     reason |-> reason, items |-> items, created_at |-> created_at,
     refund_amount |-> refund_amount]

\* pydantic keeps the declared fields only: last_update and tracking_url, which
\* MockDataStrategy passes, are not fields of TrackingInfo and are dropped
TrackingInfo(tracking_number, carrier, status, estimated_delivery, current_location, history) ==
    [tracking_number |-> tracking_number, carrier |-> carrier, status |-> status,
     estimated_delivery |-> estimated_delivery,
     current_location |-> current_location, history |-> history]

TrackingInfoFields ==
    {"tracking_number", "carrier", "status", "estimated_delivery",
     "current_location", "history"}

----------------------------------------------------------------------------
(* Randomness *)

\* values the module-level Faker produces for one address: street_address,
\* city, zipcode, phone_number
FakeDraws ==
    { [street_address |-> "1 Main St", city |-> "Springfield",
       zipcode |-> "12345", phone_number |-> "555-0100"],
      [street_address |-> "9 Oak Ave", city |-> "Shelbyville",
       zipcode |-> "67890", phone_number |-> "555-0199"] }

\* seeds the operating system gives a random.Random() that is never seeded
EntropySeeds == {11, 12}

\* the i-th value of the stream of random.Random seeded with `seed`
LocalRandom(seed, i) == ((seed + 3) * (2 * i + 5) * 1009) % 10007

\* the i-th draw of local_random, as randint(lo, hi)
RandInt(seed, i, lo, hi) == lo + (LocalRandom(seed, i) % (hi - lo + 1))

\* a total of the unit prices, whatever the quantities
RECURSIVE SumUnitPrices(_)
SumUnitPrices(entries) ==
    IF Len(entries) = 0 THEN 0
    ELSE (entries[1].entry_amount \div entries[1].quantity) + SumUnitPrices(Tail(entries))

\* total = 0.0; total += entry_amount for each entry
RECURSIVE SumAmounts(_)
SumAmounts(entries) ==
    IF Len(entries) = 0 THEN 0
    ELSE entries[1].entry_amount + SumAmounts(Tail(entries))

----------------------------------------------------------------------------
(* MockDataStrategy._generate_mock_data *)

statuses == <<"pending", "processing", "shipped", "delivered", "cancelled">>

\* joint draws of the global random and Faker for one seeded order: the
\* index of random.choice(statuses), the customer number, the days since
\* creation, the hours to the update, the entries' (quantity, price in cents,
\* product number), line_2, the Faker values of the two addresses (the same
\* when billing is the shipping address), the tracking digits
SeedDrawA(choice) ==
    [choice |-> choice, customer |-> 100, days |-> 1, hours |-> 1,
     items |-> << <<1, 1000, 1>> >>,
     line_2 |-> "",
     shipping |-> [street_address |-> "1 Main St", city |-> "Springfield",
                   zipcode |-> "12345", phone_number |-> "555-0100"],
     billing |-> [street_address |-> "1 Main St", city |-> "Springfield",
                  zipcode |-> "12345", phone_number |-> "555-0100"],
     track |-> 1000]
SeedDrawB(choice) ==
    [choice |-> choice, customer |-> 155, days |-> 30, hours |-> 48,
     items |-> << <<3, 20000, 100>>, <<2, 1050, 7>> >>,
     line_2 |-> "Apt. 2",
     shipping |-> [street_address |-> "9 Oak Ave", city |-> "Shelbyville",
                   zipcode |-> "67890", phone_number |-> "555-0199"],
     billing |-> [street_address |-> "1 Main St", city |-> "Springfield",
                  zipcode |-> "12345", phone_number |-> "555-0100"],
     track |-> 9999]
SeedDraws ==
    {SeedDrawA(1), SeedDrawB(2), SeedDrawA(3), SeedDrawB(4), SeedDrawA(5)}

SeedOrder(i, d) ==
    LET order_id == SeedId(i)
        status == statuses[d.choice]
        created_at == 0 - 24 * d.days
        entries == [j \in 1..Len(d.items) |->
                      OrderEntry(<<"ENTRY-">> \o order_id \o <<"-">> \o IntToStr(j),
                                 <<"PROD-">> \o IntToStr(d.items[j][3]),
                                 d.items[j][1],
                                 d.items[j][1] * d.items[j][2],
                                 IF status \notin {"cancelled"} THEN "active"
                                 ELSE "cancelled")]
    IN Order(order_id,
             <<"CUST-">> \o IntToStr(d.customer),
             status,
             created_at,
             created_at + d.hours,
             entries,
             SumAmounts(entries),
             Address(d.shipping.street_address, d.line_2, d.shipping.city,
                     d.shipping.zipcode, d.shipping.phone_number),
             Address(d.billing.street_address, d.line_2, d.billing.city,
                     d.billing.zipcode, d.billing.phone_number),
             IF status \in {"shipped", "delivered"}
             THEN Some(<<"TRK">> \o IntToStr(d.track)) ELSE None)

\* the orders _generate_mock_data can put under SeedId(i)
SeedOrders(i) == {SeedOrder(i, d) : d \in SeedDraws}

----------------------------------------------------------------------------
(* MockDataStrategy._parse_order_id *)

status_map ==
    << <<<<"-", "D">>, "delivered">>,
       <<<<"-", "C">>, "cancelled">>,
       <<<<"-", "S">>, "shipped">>,
       <<<<"-", "P">>, "processing">>,
       <<<<"-", "F">>, "failed">>,
       <<<<"-", "R">>, "ready_for_pickup">>,
       <<<<"-", "T">>, "in_transit">> >>

\* parse_order_id without the test of the -E suffix
parse_order_id_keeps_E(order_id) ==
    IF Upper(order_id) = ORD \o <<"E", "R", "R", "O", "R">>
    THEN [status |-> "error", should_exist |-> FALSE]
    ELSE IF \E k \in 1..Len(status_map) : EndsWith(order_id, status_map[k][1])
    THEN LET k == CHOOSE k \in 1..Len(status_map) :
                    /\ EndsWith(order_id, status_map[k][1])
                    /\ \A j \in 1..(k - 1) : ~EndsWith(order_id, status_map[j][1])
         IN [status |-> status_map[k][2], should_exist |-> TRUE]
    ELSE [status |-> "pending", should_exist |-> TRUE]

\* parse_order_id comparing the id with ORD-ERROR without upper()
parse_order_id_exact_case(order_id) ==
    IF EndsWith(order_id, <<"-", "E">>)
       \/ order_id = ORD \o <<"E", "R", "R", "O", "R">>
    THEN [status |-> "error", should_exist |-> FALSE]
    ELSE IF \E k \in 1..Len(status_map) : EndsWith(order_id, status_map[k][1])
    THEN LET k == CHOOSE k \in 1..Len(status_map) :
                    /\ EndsWith(order_id, status_map[k][1])
                    /\ \A j \in 1..(k - 1) : ~EndsWith(order_id, status_map[j][1])
         IN [status |-> status_map[k][2], should_exist |-> TRUE]
    ELSE [status |-> "pending", should_exist |-> TRUE]

parse_order_id(order_id) ==
    IF EndsWith(order_id, <<"-", "E">>)
       \/ Upper(order_id) = ORD \o <<"E", "R", "R", "O", "R">>
    THEN [status |-> "error", should_exist |-> FALSE]
    ELSE IF \E k \in 1..Len(status_map) : EndsWith(order_id, status_map[k][1])
    THEN LET k == CHOOSE k \in 1..Len(status_map) :
                    /\ EndsWith(order_id, status_map[k][1])
                    /\ \A j \in 1..(k - 1) : ~EndsWith(order_id, status_map[j][1])
         IN [status |-> status_map[k][2], should_exist |-> TRUE]
    ELSE [status |-> "pending", should_exist |-> TRUE]

----------------------------------------------------------------------------
(* MockDataStrategy._create_dynamic_order *)

products ==
    << <<"Wireless Headphones", 9999>>,
       <<"Smartphone Case", 2499>>,
       <<"USB Cable", 1299>>,
       <<"Bluetooth Speaker", 7999>>,
       <<"Phone Charger", 1999>>,
       <<"Screen Protector", 999>>,
       <<"Memory Card", 3499>>,
       <<"Tablet Stand", 2999>> >>

\* the seeds local_random can start from: int(base_num) when the id has
\* digits, and otherwise whatever the operating system provides
LocalSeeds(order_id) ==
    IF Len(DigitsOf(order_id)) > 0 THEN {ParseInt(DigitsOf(order_id))}
    ELSE EntropySeeds

\* seed: the seed of local_random; fake: the values Faker returns;
\* t: datetime.now()
create_dynamic_order(order_id, status, seed, fake, t) ==
    LET shipping_address == Address(fake.street_address, "", fake.city,
                                    fake.zipcode, fake.phone_number)
        customer_id == <<"CUST-">> \o IntToStr(RandInt(seed, 0, 100, 999))
        num_entries == RandInt(seed, 1, 1, 3)
        entries == [k \in 1..num_entries |->
                      LET price == products[1 + RandInt(seed, 3 * k - 1, 0, 7)][2]
                          quantity == RandInt(seed, 3 * k, 1, 2)
                      IN OrderEntry(<<"ENTRY-">> \o order_id \o <<"-">> \o IntToStr(k),
                                    <<"PROD-">> \o IntToStr(RandInt(seed, 3 * k + 1, 1000, 9999)),
                                    quantity,
                                    price * quantity,
                                    IF status \notin {"cancelled"} THEN "active"
                                    ELSE "cancelled")]
        d1 == 3 * num_entries + 2
        d2 == 3 * num_entries + 3
        d3 == 3 * num_entries + 4
        created_at ==
            IF status = "delivered" THEN t - 24 * RandInt(seed, d1, 7, 30)
            ELSE IF status = "shipped" THEN t - 24 * RandInt(seed, d1, 3, 10)
            ELSE IF status = "cancelled" THEN t - 24 * RandInt(seed, d1, 1, 14)
            ELSE t - 24 * RandInt(seed, d1, 0, 7)
        updated_at ==
            IF status = "delivered" THEN t - 24 * RandInt(seed, d2, 1, 5)
            ELSE IF status = "shipped" THEN t - 24 * RandInt(seed, d2, 1, 3)
            ELSE IF status = "cancelled" THEN t - 24 * RandInt(seed, d2, 0, 2)
            ELSE created_at + RandInt(seed, d2, 1, 48)
        tracking_number ==
            IF status \in {"shipped", "delivered", "in_transit"}
            THEN Some(<<"TRK">> \o IntToStr(RandInt(seed, d3, 1000, 9999)))
            ELSE None
    IN Order(order_id, customer_id, status, created_at, updated_at, entries,
             SumAmounts(entries), shipping_address, shipping_address,
             tracking_number)

----------------------------------------------------------------------------
(* MockDataStrategy.get_order *)

\* the store with `order` under its id
Put(os, order) ==
    [k \in DOMAIN os \cup {order.order_id} |->
        IF k = order.order_id THEN order ELSE os[k]]

\* parse_order_id and create_dynamic_order, tabulated over the inputs of the
\* model (each value is computed once)
ParseTable == [id \in OrderIds |-> parse_order_id(id)]
SynthTable ==
    [id \in {x \in OrderIds : ParseTable[x].should_exist} |->
        [seed \in LocalSeeds(id) |->
            [fake \in FakeDraws |->
                [t \in 0..MaxNow |->
                    create_dynamic_order(id, ParseTable[id].status, seed, fake, t)]]]]

\* get_order that derives the status of a stored order from the id again
get_order_status_from_suffix(os, order_id, seed, fake, t) ==
    LET cached(o) == [orders |-> Put(os, o), order |-> Some(o), created |-> TRUE]
    IN IF order_id \in DOMAIN os
       THEN [orders |-> os,
             order |-> Some([os[order_id] EXCEPT !.status = ParseTable[order_id].status]),
             created |-> FALSE]
       ELSE IF ~ParseTable[order_id].should_exist
       THEN [orders |-> os, order |-> None, created |-> FALSE]
       ELSE cached(SynthTable[order_id][seed][fake][t])

\* get_order that gives every order it synthesizes a tracking number
get_order_tracks_all(os, order_id, seed, fake, t) ==
    LET cached(o) == [orders |-> Put(os, o), order |-> Some(o), created |-> TRUE]
        tracked(o) == [o EXCEPT !.tracking_number =
                          IF IsNone(@) THEN Some(<<"TRK", "1", "0", "0", "0">>) ELSE @]
    IN IF order_id \in DOMAIN os
       THEN [orders |-> os, order |-> Some(os[order_id]), created |-> FALSE]
       ELSE IF ~ParseTable[order_id].should_exist
       THEN [orders |-> os, order |-> None, created |-> FALSE]
       ELSE cached(tracked(SynthTable[order_id][seed][fake][t]))

\* the result is the order found or made, the store afterwards, and whether
\* the order was synthesized (which reads the clock)
get_order(os, order_id, seed, fake, t) ==
    LET cached(o) == [orders |-> Put(os, o), order |-> Some(o), created |-> TRUE]
    IN IF order_id \in DOMAIN os
       THEN [orders |-> os, order |-> Some(os[order_id]), created |-> FALSE]
       ELSE IF ~ParseTable[order_id].should_exist
       THEN [orders |-> os, order |-> None, created |-> FALSE]
       ELSE cached(SynthTable[order_id][seed][fake][t])

----------------------------------------------------------------------------
(* MockDataStrategy.update_order_status *)

\* update_order_status that looks the order up with get_order, as cancel_order
\* does, and so synthesizes it
update_order_status_by_lookup(os, order_id, new_status, t) ==
    LET updated(r) ==
          IF IsNone(r.order)
          THEN [orders |-> r.orders, result |-> FALSE, clock |-> r.created]
          ELSE [orders |-> [r.orders EXCEPT ![order_id].status = new_status,
                                            ![order_id].updated_at = t],
                result |-> TRUE, clock |-> TRUE]
    IN updated(get_order(os, order_id, CHOOSE seed \in LocalSeeds(order_id) : TRUE,
                         CHOOSE fake \in FakeDraws : TRUE, t))

update_order_status(os, order_id, new_status, t) ==
    IF order_id \in DOMAIN os
    THEN [orders |-> [os EXCEPT ![order_id].status = new_status,
                                ![order_id].updated_at = t],
          result |-> TRUE, clock |-> TRUE]
    ELSE [orders |-> os, result |-> FALSE, clock |-> FALSE]

----------------------------------------------------------------------------
(* MockDataStrategy.cancel_order *)

\* cancel_order that also cancels a shipped order
cancel_order_shipped_too(os, order_id, reason, seed, fake, t) ==
    LET decide(r) ==
          IF IsNone(r.order)
          THEN [orders |-> r.orders, result |-> FALSE, clock |-> r.created]
          ELSE IF EndsWith(order_id, <<"-", "F">>)
          THEN [orders |-> r.orders, result |-> FALSE, clock |-> r.created]
          ELSE IF r.order[1].status \in {"pending", "processing", "shipped"}
          THEN [orders |-> [r.orders EXCEPT ![order_id].status = "cancelled",
                                            ![order_id].updated_at = t],
                result |-> TRUE, clock |-> TRUE]
          ELSE [orders |-> r.orders, result |-> FALSE, clock |-> r.created]
    IN decide(get_order(os, order_id, seed, fake, t))

\* cancel_order that also cancels an order in transit
cancel_order_in_transit_too(os, order_id, reason, seed, fake, t) ==
    LET decide(r) ==
          IF IsNone(r.order)
          THEN [orders |-> r.orders, result |-> FALSE, clock |-> r.created]
          ELSE IF EndsWith(order_id, <<"-", "F">>)
          THEN [orders |-> r.orders, result |-> FALSE, clock |-> r.created]
          ELSE IF r.order[1].status \in {"pending", "processing", "in_transit"}
          THEN [orders |-> [r.orders EXCEPT ![order_id].status = "cancelled",
                                            ![order_id].updated_at = t],
                result |-> TRUE, clock |-> TRUE]
          ELSE [orders |-> r.orders, result |-> FALSE, clock |-> r.created]
    IN decide(get_order(os, order_id, seed, fake, t))

\* cancel_order that stamps updated_at before it refuses
cancel_order_stamps_refusal(os, order_id, reason, seed, fake, t) ==
    LET decide(r) ==
          IF IsNone(r.order)
          THEN [orders |-> r.orders, result |-> FALSE, clock |-> r.created]
          ELSE IF EndsWith(order_id, <<"-", "F">>)
          THEN [orders |-> r.orders, result |-> FALSE, clock |-> r.created]
          ELSE IF r.order[1].status \in {"pending", "processing"}
          THEN [orders |-> [r.orders EXCEPT ![order_id].status = "cancelled",
                                            ![order_id].updated_at = t],
                result |-> TRUE, clock |-> TRUE]
          ELSE [orders |-> [r.orders EXCEPT ![order_id].updated_at = t + 1],
                result |-> FALSE, clock |-> TRUE]
    IN decide(get_order(os, order_id, seed, fake, t))

\* cancel_order without the check of the -F suffix
cancel_order_no_forced_failure(os, order_id, reason, seed, fake, t) ==
    LET decide(r) ==
          IF IsNone(r.order)
          THEN [orders |-> r.orders, result |-> FALSE, clock |-> r.created]
          ELSE IF r.order[1].status \in {"pending", "processing"}
          THEN [orders |-> [r.orders EXCEPT ![order_id].status = "cancelled",
                                            ![order_id].updated_at = t],
                result |-> TRUE, clock |-> TRUE]
          ELSE [orders |-> r.orders, result |-> FALSE, clock |-> r.created]
    IN decide(get_order(os, order_id, seed, fake, t))

cancel_order(os, order_id, reason, seed, fake, t) ==
    LET decide(r) ==
          IF IsNone(r.order)
          THEN [orders |-> r.orders, result |-> FALSE, clock |-> r.created]
          ELSE IF EndsWith(order_id, <<"-", "F">>)
          THEN [orders |-> r.orders, result |-> FALSE, clock |-> r.created]
          ELSE IF r.order[1].status \in {"pending", "processing"}
          THEN [orders |-> [r.orders EXCEPT ![order_id].status = "cancelled",
                                            ![order_id].updated_at = t],
                result |-> TRUE, clock |-> TRUE]
          ELSE [orders |-> r.orders, result |-> FALSE, clock |-> r.created]
    IN decide(get_order(os, order_id, seed, fake, t))

----------------------------------------------------------------------------
(* MockDataStrategy.initiate_return *)

\* joint draws of Faker and the global random for one return: the digits of
\* fake.numerify('####') and round(random.uniform(10, 500), 2) in cents
ReturnDraws ==
    { [number |-> <<"0", "0", "0", "7">>, refund |-> 1000],
      [number |-> <<"9", "9", "9", "9">>, refund |-> 50000] }

\* initiate_return that returns the Return without storing it
initiate_return_not_stored(rs, order_id, items, reason, number, refund, t) ==
    [returns |-> rs,
     result |-> Return(<<"RET-">> \o number, order_id, reason, items, t, refund)]

\* number: the digits Faker returns; refund: the amount random returns
initiate_return(rs, order_id, items, reason, number, refund, t) ==
    LET stored(return_obj) ==
          [returns |-> [k \in DOMAIN rs \cup {return_obj.return_id} |->
                           IF k = return_obj.return_id THEN return_obj ELSE rs[k]],
           result |-> return_obj]
    IN stored(Return(<<"RET-">> \o number, order_id, reason, items, t, refund))

----------------------------------------------------------------------------
(* MockDataStrategy.get_order_tracking *)

carriers == <<"UPS", "FedEx", "USPS", "DHL">>

\* joint draws of the global random and Faker for one tracking query:
\* the digits of a new tracking number, the days to the estimated delivery,
\* the current location, the number of history events, and the location and
\* status of each
TrackingDraws ==
    { [track |-> 1000, days |-> 3, location |-> "Springfield, IL", events |-> 2,
       locations |-> <<"Springfield, IL", "Dover, DE", "Salem, OR", "Troy, NY", "Reno, NV">>,
       statuses |-> <<"Package scanned", "Package in transit", "Package scanned",
                      "Package in transit", "Package out for delivery">>],
      [track |-> 9999, days |-> 7, location |-> "Reno, NV", events |-> 5,
       locations |-> <<"Reno, NV", "Reno, NV", "Troy, NY", "Salem, OR", "Dover, DE">>,
       statuses |-> <<"Package out for delivery", "Package scanned", "Package in transit",
                      "Package in transit", "Package out for delivery">>] }

\* get_order_tracking that assigns no tracking number to a failed order
get_order_tracking_failed_untracked(os, order_id, seed, fake, g, t) ==
    LET carrier_index == OrdSum(order_id) % Len(carriers)
        carrier == carriers[carrier_index + 1]
        \* os2: the store, and order: the order, once the tracking number is ensured
        report(os2, order, created) ==
          IF IsNone(order.tracking_number)
          THEN [orders |-> os2, result |-> None, clock |-> created]
          ELSE IF EndsWith(order_id, <<"-", "F">>)
          THEN [orders |-> os2,
                result |-> Some(TrackingInfo(
                    order.tracking_number[1], carrier, "lost", None,
                    Some("Unknown"),
                    << [timestamp |-> order.created_at + 12,
                        location |-> "Distribution Center",
                        status |-> "Package scanned"],
                       [timestamp |-> order.created_at + 24 * 2,
                        location |-> "In Transit",
                        status |-> "Package lost during transit"] >>)),
                clock |-> TRUE]
          ELSE [orders |-> os2,
                result |-> Some(TrackingInfo(
                    order.tracking_number[1], carrier,
                    IF order.status = "in_transit" THEN "in_transit"
                    ELSE IF order.status = "delivered" THEN "delivered"
                    ELSE IF order.status = "shipped" THEN "out_for_delivery"
                    ELSE order.status,
                    Some(order.created_at + 24 * g.days),
                    Some(g.location),
                    [i \in 1..g.events |->
                        [timestamp |-> order.created_at + (i - 1) * 12,
                         location |-> g.locations[i],
                         status |-> g.statuses[i]]])),
                clock |-> TRUE]
        ensured(os2, created) == report(os2, os2[order_id], created)
        found(r) ==
          IF IsNone(r.order)
          THEN [orders |-> r.orders, result |-> None, clock |-> r.created]
          ELSE IF EndsWith(order_id, <<"-", "E">>)
          THEN [orders |-> r.orders, result |-> None, clock |-> r.created]
          ELSE IF IsNone(r.order[1].tracking_number)
                  /\ r.order[1].status \in {"shipped", "delivered", "in_transit"}
          THEN ensured([r.orders EXCEPT ![order_id].tracking_number =
                            Some(<<"TRK">> \o IntToStr(g.track))], r.created)
          ELSE ensured(r.orders, r.created)
    IN found(get_order(os, order_id, seed, fake, t))

\* get_order_tracking that reports a new tracking number without storing it
\* in the order
get_order_tracking_unstored_number(os, order_id, seed, fake, g, t) ==
    LET carrier_index == OrdSum(order_id) % Len(carriers)
        carrier == carriers[carrier_index + 1]
        \* os2: the store, and order: the order, once the tracking number is ensured
        report(os2, order, created) ==
          IF IsNone(order.tracking_number)
          THEN [orders |-> os2, result |-> None, clock |-> created]
          ELSE IF EndsWith(order_id, <<"-", "F">>)
          THEN [orders |-> os2,
                result |-> Some(TrackingInfo(
                    order.tracking_number[1], carrier, "lost", None,
                    Some("Unknown"),
                    << [timestamp |-> order.created_at + 12,
                        location |-> "Distribution Center",
                        status |-> "Package scanned"],
                       [timestamp |-> order.created_at + 24 * 2,
                        location |-> "In Transit",
                        status |-> "Package lost during transit"] >>)),
                clock |-> TRUE]
          ELSE [orders |-> os2,
                result |-> Some(TrackingInfo(
                    order.tracking_number[1], carrier,
                    IF order.status = "in_transit" THEN "in_transit"
                    ELSE IF order.status = "delivered" THEN "delivered"
                    ELSE IF order.status = "shipped" THEN "out_for_delivery"
                    ELSE order.status,
                    Some(order.created_at + 24 * g.days),
                    Some(g.location),
                    [i \in 1..g.events |->
                        [timestamp |-> order.created_at + (i - 1) * 12,
                         location |-> g.locations[i],
                         status |-> g.statuses[i]]])),
                clock |-> TRUE]
        ensured(os2, created) == report(os2, os2[order_id], created)
        found(r) ==
          IF IsNone(r.order)
          THEN [orders |-> r.orders, result |-> None, clock |-> r.created]
          ELSE IF EndsWith(order_id, <<"-", "E">>)
          THEN [orders |-> r.orders, result |-> None, clock |-> r.created]
          ELSE IF IsNone(r.order[1].tracking_number)
                  /\ r.order[1].status \in {"shipped", "delivered", "in_transit", "failed"}
          THEN report(r.orders,
                      [r.order[1] EXCEPT !.tracking_number =
                          Some(<<"TRK">> \o IntToStr(g.track))], r.created)
          ELSE ensured(r.orders, r.created)
    IN found(get_order(os, order_id, seed, fake, t))

\* MockDataStrategy.get_order_tracking: mock_strategy.py 342-427
get_order_tracking(os, order_id, seed, fake, g, t) ==
    LET carrier_index == OrdSum(order_id) % Len(carriers)
        carrier == carriers[carrier_index + 1]
        \* os2: the store, and order: the order, once the tracking number is ensured
        report(os2, order, created) ==
          IF IsNone(order.tracking_number)
          THEN [orders |-> os2, result |-> None, clock |-> created]
          ELSE IF EndsWith(order_id, <<"-", "F">>)
          THEN [orders |-> os2,
                result |-> Some(TrackingInfo(
                    order.tracking_number[1], carrier, "lost", None,
                    Some("Unknown"),
                    << [timestamp |-> order.created_at + 12,
                        location |-> "Distribution Center",
                        status |-> "Package scanned"],
                       [timestamp |-> order.created_at + 24 * 2,
                        location |-> "In Transit",
                        status |-> "Package lost during transit"] >>)),
                clock |-> TRUE]
          ELSE [orders |-> os2,
                result |-> Some(TrackingInfo(
                    order.tracking_number[1], carrier,
                    IF order.status = "in_transit" THEN "in_transit"
                    ELSE IF order.status = "delivered" THEN "delivered"
                    ELSE IF order.status = "shipped" THEN "out_for_delivery"
                    ELSE order.status,
                    Some(order.created_at + 24 * g.days),
                    Some(g.location),
                    [i \in 1..g.events |->
                        [timestamp |-> order.created_at + (i - 1) * 12,
                         location |-> g.locations[i],
                         status |-> g.statuses[i]]])),
                clock |-> TRUE]
        ensured(os2, created) == report(os2, os2[order_id], created)
        found(r) ==
          IF IsNone(r.order)
          THEN [orders |-> r.orders, result |-> None, clock |-> r.created]
          ELSE IF EndsWith(order_id, <<"-", "E">>)
          THEN [orders |-> r.orders, result |-> None, clock |-> r.created]
          ELSE IF IsNone(r.order[1].tracking_number)
                  /\ r.order[1].status \in {"shipped", "delivered", "in_transit", "failed"}
          THEN ensured([r.orders EXCEPT ![order_id].tracking_number =
                            Some(<<"TRK">> \o IntToStr(g.track))], r.created)
          ELSE ensured(r.orders, r.created)
    IN found(get_order(os, order_id, seed, fake, t))

----------------------------------------------------------------------------
(* MockDataStrategy.get_return_policy *)

get_return_policy ==
    <<"\n        **Return Policy**\n\n        We offer a 30-day return policy on all items. To be eligible for a return:\n        - Items must be unused and in original packaging\n        - Receipt or proof of purchase is required\n        - Some items may be subject to restocking fees\n\n        To initiate a return, contact our customer service team with your order number.\n        ">>

----------------------------------------------------------------------------
(* EcommerceMCPServer: formatting *)

\* status.replace('_', ' ').title()
Title(status) ==
    CASE status = "pending" -> "Pending"
      [] status = "processing" -> "Processing"
      [] status = "shipped" -> "Shipped"
      [] status = "in_transit" -> "In Transit"
      [] status = "delivered" -> "Delivered"
      [] status = "cancelled" -> "Cancelled"
      [] status = "failed" -> "Failed"
      [] status = "ready_for_pickup" -> "Ready For Pickup"
      [] status = "out_for_delivery" -> "Out For Delivery"
      [] status = "lost" -> "Lost"

\* strftime('%B %d, %Y'): the day of the timestamp, without the time of day
FormatDate(t) ==
    LET day == t \div 24
    IN <<"day ">> \o (IF day < 0 THEN <<"-">> \o IntToStr(0 - day) ELSE IntToStr(day))

\* f"${amount:.2f}"
FormatMoney(cents) ==
    <<"$">> \o IntToStr(cents \div 100) \o <<".">>
            \o IntToStr((cents % 100) \div 10) \o IntToStr(cents % 10)

\* ', '.join(items)
RECURSIVE Join(_)
Join(items) ==
    IF Len(items) = 0 THEN <<>>
    ELSE IF Len(items) = 1 THEN items[1]
    ELSE items[1] \o <<", ">> \o Join(Tail(items))

\* `sub in s` on strings of characters
HasSubstring(s, sub) ==
    \E i \in 0..(Len(s) - Len(sub)) : SubSeq(s, i + 1, i + Len(sub)) = sub

\* tracking.<field> raises AttributeError when TrackingInfo has no such field
HasField(field) == field \in TrackingInfoFields

----------------------------------------------------------------------------
(* EcommerceMCPServer.get_order_status *)

OrderNotFound(order_id) ==
    <<"Order ">> \o order_id
        \o <<" not found. Please check the order number and try again.">>

\* the try block: the text it returns, or raised when an exception leaves it
get_order_status_try(os, order_id, seed, fake, g, t) ==
    LET head(order) ==
            <<"Order ">> \o order.order_id
                \o <<" Status: ", Title(order.status), "\n">>
                \o <<"Order Date: ">> \o FormatDate(order.created_at) \o <<"\n">>
                \o <<"Total: ">> \o FormatMoney(order.total_amount) \o <<"\n">>
        estimated(tracking) ==
            IF IsNone(tracking.estimated_delivery) THEN <<>>
            ELSE <<"Estimated Delivery: ">>
                     \o FormatDate(tracking.estimated_delivery[1]) \o <<"\n">>
        location(tracking, label) ==
            IF IsNone(tracking.current_location) THEN <<>>
            ELSE <<label, tracking.current_location[1], "\n">>
        block(tracking) ==
            <<"\nTracking Number: ">> \o tracking.tracking_number \o <<"\n">>
                \o <<"Carrier: ", tracking.carrier, "\n">>
        \* the branches that call get_order_tracking; tr is what the call gave
        tracked(order, tr) ==
          IF order.status = "shipped"
          THEN [orders |-> tr.orders, raised |-> FALSE, clock |-> tr.clock,
                text |-> IF IsNone(tr.result) THEN head(order)
                         ELSE head(order) \o block(tr.result[1])
                                \o <<"Current Status: ", Title(tr.result[1].status), "\n">>
                                \o estimated(tr.result[1])
                                \o <<"\nYour package has been shipped and is now with the carrier.">>]
          ELSE IF order.status = "in_transit"
          THEN [orders |-> tr.orders, raised |-> FALSE, clock |-> tr.clock,
                text |-> IF IsNone(tr.result) THEN head(order)
                         ELSE head(order) \o block(tr.result[1])
                                \o <<"Current Status: ", Title(tr.result[1].status), "\n">>
                                \o location(tr.result[1], "Current Location: ")
                                \o estimated(tr.result[1])
                                \o <<"\nYour package is actively moving through the carrier network.">>]
          ELSE IF IsNone(tr.result)
          THEN [orders |-> tr.orders, raised |-> FALSE, clock |-> tr.clock,
                text |-> head(order)]
          ELSE IF ~HasField("last_update")
          THEN [orders |-> tr.orders, raised |-> TRUE, clock |-> tr.clock,
                text |-> <<>>]
          ELSE [orders |-> tr.orders, raised |-> FALSE, clock |-> tr.clock,
                text |-> head(order) \o block(tr.result[1])
                           \o <<"Delivered on: ", "last_update", "\n">>
                           \o location(tr.result[1], "Delivered to: ")
                           \o <<"\nYour package has been successfully delivered!">>]
        found(r, order) ==
          IF order.status \in {"shipped", "in_transit", "delivered"}
          THEN tracked(order, get_order_tracking(r.orders, order_id, seed, fake, g, t))
          ELSE IF order.status = "ready_for_pickup"
          THEN [orders |-> r.orders, raised |-> FALSE, clock |-> r.created,
                text |-> head(order)
                           \o <<"\nYour order is ready for pickup at our store location.\n">>
                           \o <<"Please bring a valid ID and your order confirmation.">>]
          ELSE IF order.status = "cancelled"
          THEN [orders |-> r.orders, raised |-> FALSE, clock |-> r.created,
                text |-> head(order)
                           \o <<"\nThis order has been cancelled.\n">>
                           \o <<"If you were charged, the refund will appear in 3-5 business days.">>]
          ELSE IF order.status = "failed"
          THEN [orders |-> r.orders, raised |-> FALSE, clock |-> r.created,
                text |-> head(order)
                           \o <<"\nThere was an issue processing this order.\n">>
                           \o <<"Please contact customer service for assistance.">>]
          ELSE [orders |-> r.orders, raised |-> FALSE, clock |-> r.created,
                text |-> head(order)]
        looked_up(r) ==
          IF IsNone(r.order)
          THEN [orders |-> r.orders, raised |-> FALSE, clock |-> r.created,
                text |-> OrderNotFound(order_id)]
          ELSE found(r, r.order[1])
    IN looked_up(get_order(os, order_id, seed, fake, t))

\* the except clause turns every exception into the apology
get_order_status_except(b) ==
    [orders |-> b.orders, clock |-> b.clock, caught |-> b.raised,
     text |-> IF b.raised
              THEN <<"I encountered an error while checking your order status. Please try again later.">>
              ELSE b.text]

get_order_status(os, order_id, seed, fake, g, t) ==
    get_order_status_except(get_order_status_try(os, order_id, seed, fake, g, t))

----------------------------------------------------------------------------
(* EcommerceMCPServer.cancel_order *)

\* cancel_order of the service without the rule for shipped orders
server_cancel_order_try_delegates_shipped(os, order_id, reason, seed, fake, t) ==
    LET \* c: what the Data Strategy's cancel_order gave
        delegate(r, c) ==
          [orders |-> c.orders, raised |-> FALSE, clock |-> r.created \/ c.clock,
           delegated |-> TRUE, success |-> c.result,
           text |-> IF c.result
                    THEN <<"Order ">> \o order_id
                           \o <<" has been successfully cancelled. You will receive a confirmation email shortly, and any charges will be refunded within 3-5 business days.">>
                    ELSE <<"Unable to cancel order ">> \o order_id
                           \o <<". Please contact customer service for assistance.">>]
        looked_up(r) ==
          IF IsNone(r.order)
          THEN [orders |-> r.orders, raised |-> FALSE, clock |-> r.created,
                delegated |-> FALSE, success |-> FALSE, text |-> OrderNotFound(order_id)]
          ELSE IF r.order[1].status \in {"delivered", "cancelled"}
          THEN [orders |-> r.orders, raised |-> FALSE, clock |-> r.created,
                delegated |-> FALSE, success |-> FALSE,
                text |-> <<"Order ">> \o order_id
                           \o <<" cannot be cancelled as it is already ",
                                r.order[1].status, ".">>]
          ELSE IF FALSE
          THEN [orders |-> r.orders, raised |-> FALSE, clock |-> r.created,
                delegated |-> FALSE, success |-> FALSE,
                text |-> <<"Order ">> \o order_id
                           \o <<" has already shipped. Please use our return process instead.">>]
          ELSE delegate(r, cancel_order(r.orders, order_id, reason, seed, fake, t))
    IN looked_up(get_order(os, order_id, seed, fake, t))

\* cancel_order of the service reporting success whatever the Data Strategy answered
server_cancel_order_try_ignores_result(os, order_id, reason, seed, fake, t) ==
    LET \* c: what the Data Strategy's cancel_order gave
        delegate(r, c) ==
          [orders |-> c.orders, raised |-> FALSE, clock |-> r.created \/ c.clock,
           delegated |-> TRUE, success |-> c.result,
           text |-> IF TRUE
                    THEN <<"Order ">> \o order_id
                           \o <<" has been successfully cancelled. You will receive a confirmation email shortly, and any charges will be refunded within 3-5 business days.">>
                    ELSE <<"Unable to cancel order ">> \o order_id
                           \o <<". Please contact customer service for assistance.">>]
        looked_up(r) ==
          IF IsNone(r.order)
          THEN [orders |-> r.orders, raised |-> FALSE, clock |-> r.created,
                delegated |-> FALSE, success |-> FALSE, text |-> OrderNotFound(order_id)]
          ELSE IF r.order[1].status \in {"delivered", "cancelled"}
          THEN [orders |-> r.orders, raised |-> FALSE, clock |-> r.created,
                delegated |-> FALSE, success |-> FALSE,
                text |-> <<"Order ">> \o order_id
                           \o <<" cannot be cancelled as it is already ",
                                r.order[1].status, ".">>]
          ELSE IF r.order[1].status = "shipped"
          THEN [orders |-> r.orders, raised |-> FALSE, clock |-> r.created,
                delegated |-> FALSE, success |-> FALSE,
                text |-> <<"Order ">> \o order_id
                           \o <<" has already shipped. Please use our return process instead.">>]
          ELSE delegate(r, cancel_order(r.orders, order_id, reason, seed, fake, t))
    IN looked_up(get_order(os, order_id, seed, fake, t))

\* cancel_order of the service that hands a cancelled order to the strategy
server_cancel_order_try_delegates_cancelled(os, order_id, reason, seed, fake, t) ==
    LET \* c: what the Data Strategy's cancel_order gave
        delegate(r, c) ==
          [orders |-> c.orders, raised |-> FALSE, clock |-> r.created \/ c.clock,
           delegated |-> TRUE, success |-> c.result,
           text |-> IF c.result
                    THEN <<"Order ">> \o order_id
                           \o <<" has been successfully cancelled. You will receive a confirmation email shortly, and any charges will be refunded within 3-5 business days.">>
                    ELSE <<"Unable to cancel order ">> \o order_id
                           \o <<". Please contact customer service for assistance.">>]
        looked_up(r) ==
          IF IsNone(r.order)
          THEN [orders |-> r.orders, raised |-> FALSE, clock |-> r.created,
                delegated |-> FALSE, success |-> FALSE, text |-> OrderNotFound(order_id)]
          ELSE IF r.order[1].status \in {"delivered"}
          THEN [orders |-> r.orders, raised |-> FALSE, clock |-> r.created,
                delegated |-> FALSE, success |-> FALSE,
                text |-> <<"Order ">> \o order_id
                           \o <<" cannot be cancelled as it is already ",
                                r.order[1].status, ".">>]
          ELSE IF r.order[1].status = "shipped"
          THEN [orders |-> r.orders, raised |-> FALSE, clock |-> r.created,
                delegated |-> FALSE, success |-> FALSE,
                text |-> <<"Order ">> \o order_id
                           \o <<" has already shipped. Please use our return process instead.">>]
          ELSE delegate(r, cancel_order(r.orders, order_id, reason, seed, fake, t))
    IN looked_up(get_order(os, order_id, seed, fake, t))

server_cancel_order_try(os, order_id, reason, seed, fake, t) ==
    LET \* c: what the Data Strategy's cancel_order gave
        delegate(r, c) ==
          [orders |-> c.orders, raised |-> FALSE, clock |-> r.created \/ c.clock,
           delegated |-> TRUE, success |-> c.result,
           text |-> IF c.result
                    THEN <<"Order ">> \o order_id
                           \o <<" has been successfully cancelled. You will receive a confirmation email shortly, and any charges will be refunded within 3-5 business days.">>
                    ELSE <<"Unable to cancel order ">> \o order_id
                           \o <<". Please contact customer service for assistance.">>]
        looked_up(r) ==
          IF IsNone(r.order)
          THEN [orders |-> r.orders, raised |-> FALSE, clock |-> r.created,
                delegated |-> FALSE, success |-> FALSE, text |-> OrderNotFound(order_id)]
          ELSE IF r.order[1].status \in {"delivered", "cancelled"}
          THEN [orders |-> r.orders, raised |-> FALSE, clock |-> r.created,
                delegated |-> FALSE, success |-> FALSE,
                text |-> <<"Order ">> \o order_id
                           \o <<" cannot be cancelled as it is already ",
                                r.order[1].status, ".">>]
          ELSE IF r.order[1].status = "shipped"
          THEN [orders |-> r.orders, raised |-> FALSE, clock |-> r.created,
                delegated |-> FALSE, success |-> FALSE,
                text |-> <<"Order ">> \o order_id
                           \o <<" has already shipped. Please use our return process instead.">>]
          ELSE delegate(r, cancel_order(r.orders, order_id, reason, seed, fake, t))
    IN looked_up(get_order(os, order_id, seed, fake, t))

\* delegated: the Data Strategy's cancel_order was called; success: its result
server_cancel_order_except(b) ==
    [orders |-> b.orders, clock |-> b.clock, caught |-> b.raised,
     delegated |-> b.delegated, success |-> b.success,
     text |-> IF b.raised
              THEN <<"I encountered an error while processing your cancellation. Please try again later.">>
              ELSE b.text]

server_cancel_order(os, order_id, reason, seed, fake, t) ==
    server_cancel_order_except(server_cancel_order_try(os, order_id, reason, seed, fake, t))

----------------------------------------------------------------------------
(* EcommerceMCPServer.process_return *)

\* `not item_ids`: None or the empty list
NoItems(item_ids) == IsNone(item_ids) \/ Len(item_ids[1]) = 0

\* process_return that takes a processing order as returnable
process_return_try_any_status(os, rs, order_id, item_ids, reason, seed, fake, d, t) ==
    LET \* return_info is a Return object, which is never falsy: the branch
        \* "Unable to process return" is not reached
        initiated(r, items, ret) ==
          [orders |-> r.orders, returns |-> ret.returns, raised |-> FALSE,
           clock |-> TRUE,
           text |-> <<"Return initiated for order ">> \o order_id \o <<"\n">>
                      \o <<"Return ID: ">> \o ret.result.return_id \o <<"\n">>
                      \o <<"Items: ">> \o Join(items) \o <<"\n\n">>
                      \o <<"Next Steps:\n",
                           "1. A prepaid return label has been emailed to you\n",
                           "2. Package the items in original packaging if possible\n",
                           "3. Attach the return label and drop off at any shipping location\n",
                           "4. Refund will be processed within 5-7 business days after receipt">>]
        returnable(r, items) ==
          initiated(r, items,
                    initiate_return(rs, order_id, items, reason, d.number, d.refund, t))
        looked_up(r) ==
          IF IsNone(r.order)
          THEN [orders |-> r.orders, returns |-> rs, raised |-> FALSE,
                clock |-> r.created, text |-> OrderNotFound(order_id)]
          ELSE IF r.order[1].status \notin {"delivered", "shipped", "processing"}
          THEN [orders |-> r.orders, returns |-> rs, raised |-> FALSE,
                clock |-> r.created,
                text |-> <<"Order ">> \o order_id
                           \o <<" is currently ", r.order[1].status,
                                " and cannot be returned yet. Returns are available after delivery.">>]
          ELSE returnable(r, IF NoItems(item_ids)
                             THEN [i \in 1..Len(r.order[1].entries) |->
                                      r.order[1].entries[i].product_id]
                             ELSE item_ids[1])
    IN looked_up(get_order(os, order_id, seed, fake, t))

\* process_return that defaults the items only when item_ids is None
process_return_try_keeps_empty_items(os, rs, order_id, item_ids, reason, seed, fake, d, t) ==
    LET \* return_info is a Return object, which is never falsy: the branch
        \* "Unable to process return" is not reached
        initiated(r, items, ret) ==
          [orders |-> r.orders, returns |-> ret.returns, raised |-> FALSE,
           clock |-> TRUE,
           text |-> <<"Return initiated for order ">> \o order_id \o <<"\n">>
                      \o <<"Return ID: ">> \o ret.result.return_id \o <<"\n">>
                      \o <<"Items: ">> \o Join(items) \o <<"\n\n">>
                      \o <<"Next Steps:\n",
                           "1. A prepaid return label has been emailed to you\n",
                           "2. Package the items in original packaging if possible\n",
                           "3. Attach the return label and drop off at any shipping location\n",
                           "4. Refund will be processed within 5-7 business days after receipt">>]
        returnable(r, items) ==
          initiated(r, items,
                    initiate_return(rs, order_id, items, reason, d.number, d.refund, t))
        looked_up(r) ==
          IF IsNone(r.order)
          THEN [orders |-> r.orders, returns |-> rs, raised |-> FALSE,
                clock |-> r.created, text |-> OrderNotFound(order_id)]
          ELSE IF r.order[1].status \notin {"delivered", "shipped"}
          THEN [orders |-> r.orders, returns |-> rs, raised |-> FALSE,
                clock |-> r.created,
                text |-> <<"Order ">> \o order_id
                           \o <<" is currently ", r.order[1].status,
                                " and cannot be returned yet. Returns are available after delivery.">>]
          ELSE returnable(r, IF IsNone(item_ids)
                             THEN [i \in 1..Len(r.order[1].entries) |->
                                      r.order[1].entries[i].product_id]
                             ELSE item_ids[1])
    IN looked_up(get_order(os, order_id, seed, fake, t))

process_return_try(os, rs, order_id, item_ids, reason, seed, fake, d, t) ==
    LET \* return_info is a Return object, which is never falsy: the branch
        \* "Unable to process return" is not reached
        initiated(r, items, ret) ==
          [orders |-> r.orders, returns |-> ret.returns, raised |-> FALSE,
           clock |-> TRUE,
           text |-> <<"Return initiated for order ">> \o order_id \o <<"\n">>
                      \o <<"Return ID: ">> \o ret.result.return_id \o <<"\n">>
                      \o <<"Items: ">> \o Join(items) \o <<"\n\n">>
                      \o <<"Next Steps:\n",
                           "1. A prepaid return label has been emailed to you\n",
                           "2. Package the items in original packaging if possible\n",
                           "3. Attach the return label and drop off at any shipping location\n",
                           "4. Refund will be processed within 5-7 business days after receipt">>]
        returnable(r, items) ==
          initiated(r, items,
                    initiate_return(rs, order_id, items, reason, d.number, d.refund, t))
        looked_up(r) ==
          IF IsNone(r.order)
          THEN [orders |-> r.orders, returns |-> rs, raised |-> FALSE,
                clock |-> r.created, text |-> OrderNotFound(order_id)]
          ELSE IF r.order[1].status \notin {"delivered", "shipped"}
          THEN [orders |-> r.orders, returns |-> rs, raised |-> FALSE,
                clock |-> r.created,
                text |-> <<"Order ">> \o order_id
                           \o <<" is currently ", r.order[1].status,
                                " and cannot be returned yet. Returns are available after delivery.">>]
          ELSE returnable(r, IF NoItems(item_ids)
                             THEN [i \in 1..Len(r.order[1].entries) |->
                                      r.order[1].entries[i].product_id]
                             ELSE item_ids[1])
    IN looked_up(get_order(os, order_id, seed, fake, t))

\* an except clause that hands on the text of the try block
process_return_except_passes_text(b) ==
    [orders |-> b.orders, returns |-> b.returns, clock |-> b.clock, caught |-> b.raised,
     text |-> b.text]

\* the except clause: server.py 195-197
process_return_except(b) ==
    [orders |-> b.orders, returns |-> b.returns, clock |-> b.clock, caught |-> b.raised,
     text |-> IF b.raised
              THEN <<"I encountered an error while processing your return. Please try again later.">>
              ELSE b.text]

process_return(os, rs, order_id, item_ids, reason, seed, fake, d, t) ==
    process_return_except(process_return_try(os, rs, order_id, item_ids, reason, seed, fake, d, t))

----------------------------------------------------------------------------
(* EcommerceMCPServer.track_package *)

\* track_package that raises when the Data Strategy has no tracking record
track_package_try_raises_on_absent(os, identifier, identifier_type, seed, fake, g, t) ==
    LET tracked(tr) ==
          IF IsNone(tr.result)
          THEN [orders |-> tr.orders, raised |-> TRUE, clock |-> tr.clock,
                text |-> <<"No tracking information found for order ">>
                           \o identifier \o <<".">>]
          ELSE IF ~HasField("last_update") \/ ~HasField("tracking_url")
          THEN [orders |-> tr.orders, raised |-> TRUE, clock |-> tr.clock, text |-> <<>>]
          ELSE [orders |-> tr.orders, raised |-> FALSE, clock |-> tr.clock,
                text |-> <<"Package Tracking: ">> \o tr.result[1].tracking_number \o <<"\n">>
                           \o <<"Carrier: ", tr.result[1].carrier, "\n">>
                           \o <<"Current Status: ", tr.result[1].status, "\n">>
                           \o <<"Last Update: ", "last_update", "\n">>
                           \o (IF IsNone(tr.result[1].estimated_delivery) THEN <<>>
                               ELSE <<"Estimated Delivery: ">>
                                      \o FormatDate(tr.result[1].estimated_delivery[1])
                                      \o <<"\n">>)
                           \o <<"\nFor detailed tracking, visit: ", "tracking_url">>]
    IN IF identifier_type # "order"
       THEN [orders |-> os, raised |-> FALSE, clock |-> FALSE,
             text |-> <<"Tracking by tracking number not yet implemented. Please provide an order ID instead.">>]
       ELSE tracked(get_order_tracking(os, identifier, seed, fake, g, t))

track_package_try(os, identifier, identifier_type, seed, fake, g, t) ==
    LET tracked(tr) ==
          IF IsNone(tr.result)
          THEN [orders |-> tr.orders, raised |-> FALSE, clock |-> tr.clock,
                text |-> <<"No tracking information found for order ">>
                           \o identifier \o <<".">>]
          ELSE IF ~HasField("last_update") \/ ~HasField("tracking_url")
          THEN [orders |-> tr.orders, raised |-> TRUE, clock |-> tr.clock, text |-> <<>>]
          ELSE [orders |-> tr.orders, raised |-> FALSE, clock |-> tr.clock,
                text |-> <<"Package Tracking: ">> \o tr.result[1].tracking_number \o <<"\n">>
                           \o <<"Carrier: ", tr.result[1].carrier, "\n">>
                           \o <<"Current Status: ", tr.result[1].status, "\n">>
                           \o <<"Last Update: ", "last_update", "\n">>
                           \o (IF IsNone(tr.result[1].estimated_delivery) THEN <<>>
                               ELSE <<"Estimated Delivery: ">>
                                      \o FormatDate(tr.result[1].estimated_delivery[1])
                                      \o <<"\n">>)
                           \o <<"\nFor detailed tracking, visit: ", "tracking_url">>]
    IN IF identifier_type # "order"
       THEN [orders |-> os, raised |-> FALSE, clock |-> FALSE,
             text |-> <<"Tracking by tracking number not yet implemented. Please provide an order ID instead.">>]
       ELSE tracked(get_order_tracking(os, identifier, seed, fake, g, t))

track_package_except(b) ==
    [orders |-> b.orders, clock |-> b.clock, caught |-> b.raised,
     text |-> IF b.raised
              THEN <<"I encountered an error while tracking your package. Please try again later.">>
              ELSE b.text]

track_package(os, identifier, identifier_type, seed, fake, g, t) ==
    track_package_except(track_package_try(os, identifier, identifier_type, seed, fake, g, t))

----------------------------------------------------------------------------
(* EcommerceMCPServer.get_support_info; an asterisk stands for the bullet *)

\* the try block: the text it returns
get_support_info_try(topic) ==
    LET topic_lower == Lower(topic)
    IN IF HasSubstring(topic_lower, <<"r", "e", "t", "u", "r", "n">>)
          \/ HasSubstring(topic_lower, <<"r", "e", "f", "u", "n", "d">>)
       THEN <<"Return Policy:\n">> \o get_return_policy
                \o <<"\n\nTo process a return, provide your order number.">>
       ELSE IF HasSubstring(topic_lower, <<"s", "h", "i", "p", "p", "i", "n", "g">>)
               \/ HasSubstring(topic_lower, <<"d", "e", "l", "i", "v", "e", "r", "y">>)
       THEN <<"Shipping Information:\n",
              "* Standard shipping: 5-7 business days ($5.99)\n",
              "* Express shipping: 2-3 business days ($12.99)\n",
              "* Overnight shipping: 1 business day ($24.99)\n",
              "\nFree standard shipping on orders over $50!">>
       ELSE IF HasSubstring(topic_lower, <<"c", "o", "n", "t", "a", "c", "t">>)
               \/ HasSubstring(topic_lower, <<"s", "u", "p", "p", "o", "r", "t">>)
       THEN <<"Contact Information:\n",
              "* Phone: 1-800-SUPPORT (24/7)\n",
              "* Email: support@example.com\n",
              "* Live Chat: Available on our website\n",
              "\nWe're here to help with orders, returns, and any questions!">>
       ELSE <<"How can I help you today? I can assist with:\n",
              "* Order status and tracking\n",
              "* Order cancellations\n",
              "* Returns and refunds\n",
              "* Shipping information\n",
              "* Contact information\n",
              "\nPlease let me know what you need help with!">>

get_support_info_except(b) ==
    [caught |-> b.raised,
     text |-> IF b.raised
              THEN <<"I encountered an error. Please contact customer support at 1-800-SUPPORT.">>
              ELSE b.text]

get_support_info(topic) ==
    get_support_info_except([raised |-> FALSE, text |-> get_support_info_try(topic)]).text

----------------------------------------------------------------------------
(* MockDataStrategy.get_customer_orders and MockDataStrategy.search_orders *)

\* self.orders.values(): a dict iterates in insertion order, the seeded orders
\* in the order of range(20) and then the synthesized one (the callers of one
\* run use one id besides the seeded ones)
values(os) ==
    LET seeded == [i \in 1..Cardinality(SeedRange) |-> os[SeedId(i - 1)]]
        later == DOMAIN os \ SeedIds
    IN IF later = {} THEN seeded
       ELSE seeded \o <<os[CHOOSE k \in later : TRUE]>>

\* sorted(customer_orders, key=lambda x: x.created_at, reverse=True): the sort
\* is stable, orders of one created_at keep their order
RECURSIVE sorted_reverse(_)
sorted_reverse(l) ==
    IF Len(l) = 0 THEN <<>>
    ELSE LET place(x, done) ==
               LET ahead == Cardinality({i \in 1..Len(done) :
                                            done[i].created_at >= x.created_at})
               IN SubSeq(done, 1, ahead) \o <<x>> \o SubSeq(done, ahead + 1, Len(done))
         IN place(l[Len(l)], sorted_reverse(SubSeq(l, 1, Len(l) - 1)))

\* get_customer_orders that returns the orders in the order of the store
get_customer_orders_unsorted(os, customer_id, filters) ==
    LET by_customer == SelectSeq(values(os), LAMBDA order : order.customer_id = customer_id)
        by_status ==
            IF ~IsNone(filters) /\ ~IsNone(filters[1].status)
            THEN SelectSeq(by_customer, LAMBDA order : order.status = filters[1].status[1])
            ELSE by_customer
    IN IF ~IsNone(filters) /\ ~IsNone(filters[1].date_from)
       THEN SelectSeq(by_status, LAMBDA order : order.created_at >= filters[1].date_from[1])
       ELSE by_status

\* filters: None or a dict, a record whose absent keys are None; an empty
\* dict is falsy and filters nothing, as a dict without the two keys does
get_customer_orders(os, customer_id, filters) ==
    LET by_customer == SelectSeq(values(os), LAMBDA order : order.customer_id = customer_id)
        given == ~IsNone(filters)
                 /\ (~IsNone(filters[1].status) \/ ~IsNone(filters[1].date_from))
        by_status ==
            IF given /\ ~IsNone(filters[1].status)
            THEN SelectSeq(by_customer, LAMBDA order : order.status = filters[1].status[1])
            ELSE by_customer
        by_date ==
            IF given /\ ~IsNone(filters[1].date_from)
            THEN SelectSeq(by_status, LAMBDA order : order.created_at >= filters[1].date_from[1])
            ELSE by_status
    IN sorted_reverse(by_date)

\* query_params: a dict, a record whose absent keys are None
search_orders(os, query_params) ==
    LET results == values(os)
        by_id ==
            IF ~IsNone(query_params.order_id)
            THEN SelectSeq(results, LAMBDA o : HasSubstring(o.order_id, query_params.order_id[1]))
            ELSE results
        by_customer ==
            IF ~IsNone(query_params.customer_id)
            THEN SelectSeq(by_id, LAMBDA o : o.customer_id = query_params.customer_id[1])
            ELSE by_id
    IN IF ~IsNone(query_params.status)
       THEN SelectSeq(by_customer, LAMBDA o : o.status = query_params.status[1])
       ELSE by_customer

----------------------------------------------------------------------------
(* The process *)

\* the callers of one run use the ids of the seeded orders and one other id
CallerIdSets == {SeedIds \cup {x} : x \in DynamicIds \cup ErrorIds}

\* the clock after a call that did, or did not, read it
Clock(read) == IF read THEN now + 1 ELSE now
ClockOk(read) == read => now < MaxNow
ServiceClockOk(read) == read => now < MaxServiceNow

\* local_random and Faker are used only when the lookup synthesizes the order
SynthesisDraws(order_id) ==
    IF order_id \in DOMAIN orders \/ ~ParseTable[order_id].should_exist
    THEN {<<CHOOSE seed \in LocalSeeds(order_id) : TRUE,
            CHOOSE fake \in FakeDraws : TRUE>>}
    ELSE LocalSeeds(order_id) \X FakeDraws

\* the global random and Faker are used for tracking only when the order is
\* there, or is synthesized, with a tracking number or in a trackable status
TrackingDrawsFor(order_id) ==
    LET known == order_id \in DOMAIN orders
        status == IF known THEN orders[order_id].status
                  ELSE ParseTable[order_id].status
    IN IF (known \/ ParseTable[order_id].should_exist)
          /\ (status \in {"shipped", "delivered", "in_transit", "failed"}
              \/ (known /\ ~IsNone(orders[order_id].tracking_number)))
       THEN TrackingDraws
       ELSE {CHOOSE g \in TrackingDraws : TRUE}

\* the coroutines of two concurrent cancel_order requests
Tasks == {1, 2}

\* a request that has not started; seen is the status of `order` as the
\* coroutine last got it from get_order, first the status at its first lookup
Idle ==
    [pc |-> "idle", order_id |-> <<>>, reason |-> "", found |-> FALSE, seen |-> "",
     first |-> "", success |-> FALSE, result |-> <<>>]

\* the tracking number and carrier of the first record get_order_tracking
\* returned for each id, c being the call that has just completed
FirstTracked(seen, c) ==
    IF c.op = "get_order_tracking" /\ ~IsNone(c.result) /\ c.order_id \notin DOMAIN seen
    THEN [k \in DOMAIN seen \cup {c.order_id} |->
            IF k = c.order_id
            THEN [tracking_number |-> c.result[1].tracking_number,
                  carrier |-> c.result[1].carrier]
            ELSE seen[k]]
    ELSE seen

\* the call has returned True from MockDataStrategy.cancel_order, or the
\* success message from EcommerceMCPServer.cancel_order
Succeeded(c) ==
    \/ (c.op = "cancel_order" /\ c.result)
    \/ (c.op = "server.cancel_order" /\ c.success)

Remember ==
    /\ prev_orders' = orders
    /\ prev_returns' = returns
    /\ UNCHANGED <<ids, tasks>>
    /\ cancelled_ids' = IF Succeeded(call') THEN cancelled_ids \cup {call'.order_id}
                        ELSE cancelled_ids
    /\ first_tracking' = FirstTracked(first_tracking, call')

\* MockDataStrategy.__init__
Init ==
    /\ orders \in {f \in [SeedIds -> UNION {SeedOrders(i) : i \in SeedRange}] :
                      \A i \in SeedRange : f[SeedId(i)] \in SeedOrders(i)}
    /\ returns = <<>>
    /\ now = 0
    /\ ids \in CallerIdSets
    /\ call = [op |-> "__init__"]
    /\ prev_orders = orders
    /\ prev_returns = returns
    /\ first_lookup = None
    /\ cancelled_ids = {}
    /\ tasks = [t \in Tasks |-> Idle]
    /\ first_tracking = <<>>

CallGetOrder(order_id) ==
    /\ \E sf \in SynthesisDraws(order_id) :
         \E r \in {get_order(orders, order_id, sf[1], sf[2], now)} :
            /\ ClockOk(r.created)
            /\ orders' = r.orders
            /\ now' = Clock(r.created)
            /\ call' = [op |-> "get_order", order_id |-> order_id, result |-> r.order]
            /\ first_lookup' = IF r.created THEN r.order ELSE first_lookup
    /\ UNCHANGED returns
    /\ Remember

\* inputs of the callers
Reasons == {"Customer requested", "Damaged item"}
UpdateStatuses == {"processing", "shipped"}
ReturnRequests ==
    { [items |-> <<>>, reason |-> "Customer requested"],
      [items |-> << <<"PROD-", "1">> >>, reason |-> "Damaged item"] }

CallUpdateOrderStatus(order_id, new_status) ==
    \E r \in {update_order_status(orders, order_id, new_status, now)} :
       /\ ClockOk(r.clock)
       /\ orders' = r.orders
       /\ now' = Clock(r.clock)
       /\ call' = [op |-> "update_order_status", order_id |-> order_id,
                   new_status |-> new_status, result |-> r.result]
       /\ first_lookup' = None
       /\ UNCHANGED returns
       /\ Remember

CallCancelOrder(order_id, reason) ==
    /\ \E sf \in SynthesisDraws(order_id) :
         \E r \in {cancel_order(orders, order_id, reason, sf[1], sf[2], now)} :
            /\ ClockOk(r.clock)
            /\ orders' = r.orders
            /\ now' = Clock(r.clock)
            /\ call' = [op |-> "cancel_order", order_id |-> order_id,
                        result |-> r.result]
            /\ first_lookup' = None
    /\ UNCHANGED returns
    /\ Remember

CallInitiateReturn(order_id, items, reason) ==
    /\ ClockOk(TRUE)
    /\ \E d \in ReturnDraws :
         \E r \in {initiate_return(returns, order_id, items, reason, d.number, d.refund, now)} :
            /\ Cardinality(DOMAIN r.returns) <= MaxReturns
            /\ returns' = r.returns
            /\ call' = [op |-> "initiate_return", order_id |-> order_id,
                        items |-> items, reason |-> reason, result |-> r.result]
    /\ now' = Clock(TRUE)
    /\ UNCHANGED orders
    /\ UNCHANGED first_lookup
    /\ Remember

CallGetOrderTracking(order_id) ==
    /\ \E sf \in SynthesisDraws(order_id), g \in TrackingDrawsFor(order_id) :
         \E r \in {get_order_tracking(orders, order_id, sf[1], sf[2], g, now)} :
            /\ ClockOk(r.clock)
            /\ orders' = r.orders
            /\ now' = Clock(r.clock)
            /\ call' = [op |-> "get_order_tracking", order_id |-> order_id,
                        result |-> r.result]
    /\ UNCHANGED returns
    /\ UNCHANGED first_lookup
    /\ Remember

\* further inputs of the callers
ProcessReturnRequests ==
    { [item_ids |-> None, reason |-> "Customer return"],
      [item_ids |-> Some(<<>>), reason |-> "Customer return"],
      [item_ids |-> Some(<< <<"PROD-", "1">> >>), reason |-> "Damaged item"] }
IdentifierTypes == {"order", "tracking"}
Topics ==
    { <<"R", "e", "t", "u", "r", "n", "s">>,
      <<"s", "h", "i", "p", "p", "i", "n", "g">>,
      <<"c", "o", "n", "t", "a", "c", "t">>,
      <<"g", "e", "n", "e", "r", "a", "l">> }

ServerGetOrderStatus(order_id) ==
    /\ \E sf \in SynthesisDraws(order_id), g \in TrackingDrawsFor(order_id) :
         \E r \in {get_order_status(orders, order_id, sf[1], sf[2], g, now)} :
            /\ ServiceClockOk(r.clock)
            /\ orders' = r.orders
            /\ now' = Clock(r.clock)
            /\ call' = [op |-> "server.get_order_status", order_id |-> order_id,
                        result |-> r.text, caught |-> r.caught]
    /\ UNCHANGED returns
    /\ UNCHANGED first_lookup
    /\ Remember

ServerCancelOrder(order_id, reason) ==
    /\ \E sf \in SynthesisDraws(order_id) :
         \E r \in {server_cancel_order(orders, order_id, reason, sf[1], sf[2], now)} :
            /\ ServiceClockOk(r.clock)
            /\ orders' = r.orders
            /\ now' = Clock(r.clock)
            /\ call' = [op |-> "server.cancel_order", order_id |-> order_id,
                        result |-> r.text, caught |-> r.caught,
                        delegated |-> r.delegated, success |-> r.success]
            /\ first_lookup' = IF r.delegated THEN None ELSE first_lookup
    /\ UNCHANGED returns
    /\ Remember

ServerProcessReturn(order_id, item_ids, reason) ==
    /\ \E sf \in SynthesisDraws(order_id), d \in ReturnDraws :
         \E r \in {process_return(orders, returns, order_id, item_ids, reason, sf[1], sf[2], d, now)} :
            /\ ServiceClockOk(r.clock)
            /\ Cardinality(DOMAIN r.returns) <= MaxReturns
            /\ orders' = r.orders
            /\ returns' = r.returns
            /\ now' = Clock(r.clock)
            /\ call' = [op |-> "server.process_return", order_id |-> order_id,
                        item_ids |-> item_ids, reason |-> reason,
                        result |-> r.text, caught |-> r.caught]
            /\ UNCHANGED first_lookup
    /\ Remember

ServerTrackPackage(identifier, identifier_type) ==
    /\ \E sf \in SynthesisDraws(identifier), g \in TrackingDrawsFor(identifier) :
         \E r \in {track_package(orders, identifier, identifier_type, sf[1], sf[2], g, now)} :
            /\ ServiceClockOk(r.clock)
            /\ orders' = r.orders
            /\ now' = Clock(r.clock)
            /\ call' = [op |-> "server.track_package", order_id |-> identifier,
                        identifier_type |-> identifier_type,
                        result |-> r.text, caught |-> r.caught]
    /\ UNCHANGED returns
    /\ UNCHANGED first_lookup
    /\ Remember

ServerGetSupportInfo(topic) ==
    /\ call' = [op |-> "server.get_support_info", topic |-> topic,
                result |-> get_support_info(topic), caught |-> FALSE]
    /\ UNCHANGED <<orders, returns, now>>
    /\ UNCHANGED first_lookup
    /\ Remember

\* The Data Strategy is any EcommerceStrategy handed to the constructor, and
\* its methods may raise.  Raised is what a try block gives when its first
\* Data Strategy call raises: nothing has been changed and no text is made.
Raised ==
    [orders |-> orders, returns |-> returns, clock |-> FALSE, raised |-> TRUE,
     delegated |-> FALSE, success |-> FALSE, text |-> <<>>]

OrderOperations ==
    {"server.get_order_status", "server.cancel_order", "server.process_return",
     "server.track_package"}

\* one of the four operations on an order, its first Data Strategy call raising
ServerStrategyRaises(op, order_id) ==
    /\ \E r \in {CASE op = "server.get_order_status" -> get_order_status_except(Raised)
                   [] op = "server.cancel_order" -> server_cancel_order_except(Raised)
                   [] op = "server.process_return" -> process_return_except(Raised)
                   [] op = "server.track_package" -> track_package_except(Raised)} :
          /\ orders' = r.orders
          /\ call' = [op |-> op, order_id |-> order_id, result |-> r.text,
                      caught |-> r.caught, strategy_raised |-> TRUE,
                      delegated |-> FALSE, success |-> FALSE]
    /\ UNCHANGED <<returns, now, first_lookup>>
    /\ Remember

\* get_support_info on a returns topic, get_return_policy raising
ServerGetSupportInfoRaises(topic) ==
    /\ \/ HasSubstring(Lower(topic), <<"r", "e", "t", "u", "r", "n">>)
       \/ HasSubstring(Lower(topic), <<"r", "e", "f", "u", "n", "d">>)
    /\ \E r \in {get_support_info_except(Raised)} :
          call' = [op |-> "server.get_support_info", topic |-> topic,
                   result |-> r.text, caught |-> r.caught, strategy_raised |-> TRUE]
    /\ UNCHANGED <<orders, returns, now, first_lookup>>
    /\ Remember

\* the customers of the orders of the model, and one who has no order
CustomerIds ==
    { <<"CUST-", "1", "0", "0">>, <<"CUST-", "1", "5", "5">>, <<"CUST-", "0">> }

\* the filters of get_customer_orders: none, an empty dict, a status, a
\* date_from (in hours, as created_at is), and both
CustomerFilters ==
    { None,
      Some([status |-> None, date_from |-> None]),
      Some([status |-> Some("cancelled"), date_from |-> None]),
      Some([status |-> None, date_from |-> Some(0 - 400)]),
      Some([status |-> Some("processing"), date_from |-> Some(0 - 800)]) }

\* the query_params of search_orders
SearchQueries ==
    { [order_id |-> None, customer_id |-> None, status |-> None],
      [order_id |-> Some(<<"2", "0", "0">>), customer_id |-> None, status |-> None],
      [order_id |-> Some(<<"D", "-", "1">>), customer_id |-> None, status |-> Some("shipped")],
      [order_id |-> None, customer_id |-> Some(<<"CUST-", "1", "5", "5">>), status |-> None],
      [order_id |-> None, customer_id |-> None, status |-> Some("cancelled")] }

CallGetCustomerOrders(customer_id, filters) ==
    /\ call' = [op |-> "get_customer_orders", customer_id |-> customer_id,
                filters |-> filters,
                result |-> get_customer_orders(orders, customer_id, filters)]
    /\ UNCHANGED <<orders, returns, now, first_lookup>>
    /\ Remember

CallSearchOrders(query_params) ==
    /\ call' = [op |-> "search_orders", query_params |-> query_params,
                result |-> search_orders(orders, query_params)]
    /\ UNCHANGED <<orders, returns, now, first_lookup>>
    /\ Remember

----------------------------------------------------------------------------
(* Concurrent cancel_order requests: the coroutine of
   EcommerceMCPServer.cancel_order runs from one await to the next without
   interruption, and the event loop may run the other request at each await,
   before the awaited call starts or after it has returned *)

\* order.status: `order` is the object in the store, read when the line runs
status_read_stale(os, task) == task.seen

status_read(os, task) == os[task.order_id].status

\* the request is finished with this text
Replied(task, text) == [task EXCEPT !.pc = "done", !.result = text]

\* order = await self.ecommerce_strategy.get_order(order_id)
TaskGetOrder(t, order_id, reason) ==
    /\ tasks[t].pc = "idle"
    /\ \E sf \in SynthesisDraws(order_id) :
         \E r \in {get_order(orders, order_id, sf[1], sf[2], now)} :
            /\ ClockOk(r.created)
            /\ orders' = r.orders
            /\ now' = Clock(r.created)
            /\ first_lookup' = IF r.created THEN r.order ELSE first_lookup
            /\ tasks' = [tasks EXCEPT ![t] =
                            [pc |-> "check", order_id |-> order_id, reason |-> reason,
                             found |-> ~IsNone(r.order),
                             seen |-> IF IsNone(r.order) THEN "" ELSE r.order[1].status,
                             first |-> IF IsNone(r.order) THEN "" ELSE r.order[1].status,
                             success |-> FALSE, result |-> <<>>]]
    /\ call' = [op |-> "task.get_order", task |-> t, order_id |-> order_id]
    /\ prev_orders' = orders
    /\ prev_returns' = returns
    /\ UNCHANGED <<returns, ids, cancelled_ids, first_tracking>>

\* the tests of lines 118 to 126, up to the await of line 129
TaskCheck(t) ==
    /\ tasks[t].pc = "check"
    /\ tasks' = [tasks EXCEPT ![t] =
          IF ~tasks[t].found
          THEN Replied(tasks[t], OrderNotFound(tasks[t].order_id))
          ELSE IF status_read(orders, tasks[t]) \in {"delivered", "cancelled"}
          THEN Replied(tasks[t], <<"Order ">> \o tasks[t].order_id
                                   \o <<" cannot be cancelled as it is already ",
                                        status_read(orders, tasks[t]), ".">>)
          ELSE IF status_read(orders, tasks[t]) = "shipped"
          THEN Replied(tasks[t], <<"Order ">> \o tasks[t].order_id
                                   \o <<" has already shipped. Please use our return process instead.">>)
          ELSE [tasks[t] EXCEPT !.pc = "strategy.get_order"]]
    /\ call' = [op |-> "task.check", task |-> t, order_id |-> tasks[t].order_id]
    /\ prev_orders' = orders
    /\ prev_returns' = returns
    /\ UNCHANGED <<orders, returns, now, ids, first_lookup, cancelled_ids, first_tracking>>

\* MockDataStrategy.cancel_order: order = await self.get_order(order_id);
\* the order is in the store since the lookup of the service
TaskStrategyGetOrder(t) ==
    /\ tasks[t].pc = "strategy.get_order"
    /\ \E r \in {get_order(orders, tasks[t].order_id, 0, CHOOSE fake \in FakeDraws : TRUE, now)} :
          /\ ~r.created
          /\ tasks' = [tasks EXCEPT ![t].pc = "strategy.cancel_order",
                                    ![t].seen = r.order[1].status]
    /\ call' = [op |-> "task.strategy.get_order", task |-> t,
                order_id |-> tasks[t].order_id]
    /\ prev_orders' = orders
    /\ prev_returns' = returns
    /\ UNCHANGED <<orders, returns, now, ids, first_lookup, cancelled_ids, first_tracking>>

\* MockDataStrategy.cancel_order, lines 309 to 321: no await between the test
\* of the status and the assignment
TaskStrategyCancel(t) ==
    /\ tasks[t].pc = "strategy.cancel_order"
    /\ \E cancels \in {/\ ~EndsWith(tasks[t].order_id, <<"-", "F">>)
                        /\ status_read(orders, tasks[t]) \in {"pending", "processing"}} :
          /\ ClockOk(cancels)
          /\ orders' = IF cancels
                       THEN [orders EXCEPT ![tasks[t].order_id].status = "cancelled",
                                           ![tasks[t].order_id].updated_at = now]
                       ELSE orders
          /\ now' = Clock(cancels)
          /\ tasks' = [tasks EXCEPT ![t].pc = "reply", ![t].success = cancels]
          /\ cancelled_ids' = IF cancels THEN cancelled_ids \cup {tasks[t].order_id}
                              ELSE cancelled_ids
    /\ first_lookup' = None
    /\ call' = [op |-> "task.strategy.cancel_order", task |-> t,
                order_id |-> tasks[t].order_id]
    /\ prev_orders' = orders
    /\ prev_returns' = returns
    /\ UNCHANGED <<returns, ids, first_tracking>>

\* lines 131 to 134
TaskReply(t) ==
    /\ tasks[t].pc = "reply"
    /\ tasks' = [tasks EXCEPT ![t] =
          Replied(tasks[t],
                  IF tasks[t].success
                  THEN <<"Order ">> \o tasks[t].order_id
                         \o <<" has been successfully cancelled. You will receive a confirmation email shortly, and any charges will be refunded within 3-5 business days.">>
                  ELSE <<"Unable to cancel order ">> \o tasks[t].order_id
                         \o <<". Please contact customer service for assistance.">>)]
    /\ call' = [op |-> "task.reply", task |-> t, order_id |-> tasks[t].order_id]
    /\ prev_orders' = orders
    /\ prev_returns' = returns
    /\ UNCHANGED <<orders, returns, now, ids, first_lookup, cancelled_ids, first_tracking>>

\* the callers use the order operations of the Data Strategy
OrdersNext ==
    \/ \E order_id \in ids : CallGetOrder(order_id)
    \/ \E order_id \in ids, new_status \in UpdateStatuses :
          CallUpdateOrderStatus(order_id, new_status)
    \/ \E order_id \in ids, reason \in Reasons : CallCancelOrder(order_id, reason)
    \/ \E order_id \in ids : CallGetOrderTracking(order_id)

\* the callers use the return operation of the Data Strategy
ReturnsNext ==
    \/ \E order_id \in ids : CallGetOrder(order_id)
    \/ \E order_id \in ids, q \in ReturnRequests :
          CallInitiateReturn(order_id, q.items, q.reason)

\* the callers look orders up, change their status and query the store
QueriesNext ==
    \/ \E order_id \in ids : CallGetOrder(order_id)
    \/ \E order_id \in ids, new_status \in UpdateStatuses :
          CallUpdateOrderStatus(order_id, new_status)
    \/ \E customer_id \in CustomerIds, filters \in CustomerFilters :
          CallGetCustomerOrders(customer_id, filters)
    \/ \E query_params \in SearchQueries : CallSearchOrders(query_params)

\* the callers use the five operations of the Support Service
ServiceNext ==
    \/ \E order_id \in ids : ServerGetOrderStatus(order_id)
    \/ \E order_id \in ids, reason \in Reasons : ServerCancelOrder(order_id, reason)
    \/ \E order_id \in ids, q \in ProcessReturnRequests :
          ServerProcessReturn(order_id, q.item_ids, q.reason)
    \/ \E order_id \in ids, identifier_type \in IdentifierTypes :
          ServerTrackPackage(order_id, identifier_type)
    \/ \E topic \in Topics : ServerGetSupportInfo(topic)

\* the callers use the Support Service over a Data Strategy that may raise
FaultyServiceNext ==
    \/ ServiceNext
    \/ \E op \in OrderOperations, order_id \in ids : ServerStrategyRaises(op, order_id)
    \/ \E topic \in Topics : ServerGetSupportInfoRaises(topic)

\* two cancel_order requests of the service run concurrently
ConcurrentNext ==
    \/ \E t \in Tasks, order_id \in ids, reason \in Reasons : TaskGetOrder(t, order_id, reason)
    \/ \E t \in Tasks : TaskCheck(t)
    \/ \E t \in Tasks : TaskStrategyGetOrder(t)
    \/ \E t \in Tasks : TaskStrategyCancel(t)
    \/ \E t \in Tasks : TaskReply(t)

Next == OrdersNext \/ ReturnsNext \/ QueriesNext \/ FaultyServiceNext \/ ConcurrentNext

Spec == Init /\ [][Next]_vars
SpecOrders == Init /\ [][OrdersNext]_vars
SpecReturns == Init /\ [][ReturnsNext]_vars
SpecQueries == Init /\ [][QueriesNext]_vars
SpecService == Init /\ [][ServiceNext]_vars
SpecFaultyService == Init /\ [][FaultyServiceNext]_vars
SpecConcurrent == Init /\ [][ConcurrentNext]_vars

----------------------------------------------------------------------------
(* Properties of the Data Strategy's order operations *)

ERROR_ID == ORD \o <<"E", "R", "R", "O", "R">>

\* the id is one that never resolves to an order
Unresolvable(order_id) ==
    EndsWith(order_id, <<"-", "E">>) \/ Upper(order_id) = ERROR_ID

\* the status the suffix table of the specification gives to an id
SuffixStatus(order_id) ==
    LET tail == SubSeq(order_id, Len(order_id) - 1, Len(order_id))
    IN CASE tail = <<"-", "D">> -> "delivered"
         [] tail = <<"-", "C">> -> "cancelled"
         [] tail = <<"-", "S">> -> "shipped"
         [] tail = <<"-", "P">> -> "processing"
         [] tail = <<"-", "F">> -> "failed"
         [] tail = <<"-", "R">> -> "ready_for_pickup"
         [] tail = <<"-", "T">> -> "in_transit"
         [] OTHER -> "pending"

\* the records a synthesis of the id can produce
Synthesized(order_id) ==
    {SynthTable[order_id][sf[1]][sf[2]][t] :
        sf \in LocalSeeds(order_id) \X FakeDraws, t \in 0..MaxNow}

\* the status of the order the last call resolved, as the call found it
StatusBefore(order_id) ==
    IF order_id \in DOMAIN prev_orders THEN prev_orders[order_id].status
    ELSE SuffixStatus(order_id)

\* C1: get_order on an id that is not in the store returns absent, and stores
\* nothing, when the id ends in -E or is ORD-ERROR in any case; otherwise it
\* returns a newly stored order with that id whose status is the one the
\* suffix fixes (pending without a suffix).
C1_GetOrderBySuffix ==
    (call.op = "get_order" /\ call.order_id \notin DOMAIN prev_orders) =>
        IF Unresolvable(call.order_id)
        THEN IsNone(call.result) /\ orders = prev_orders
        ELSE /\ ~IsNone(call.result)
             /\ call.result[1].order_id = call.order_id
             /\ call.result[1].status = SuffixStatus(call.order_id)
             /\ call.order_id \in DOMAIN orders
             /\ orders[call.order_id] = call.result[1]
             /\ \A k \in DOMAIN prev_orders : orders[k] = prev_orders[k]

\* get_order has just synthesized an in_transit order for an id ending in -T
C1_Witness ==
    /\ call.op = "get_order"
    /\ call.order_id \notin DOMAIN prev_orders
    /\ ~IsNone(call.result)
    /\ call.result[1].status = "in_transit"

\* get_order has just answered absent for an id that is ORD-ERROR in lower case
C1_WitnessAbsent ==
    /\ call.op = "get_order"
    /\ call.order_id # ERROR_ID
    /\ Upper(call.order_id) = ERROR_ID
    /\ IsNone(call.result)

\* C2: a get_order call of an id that an earlier get_order call synthesized,
\* with no cancel_order or update_order_status call in between, returns the
\* record the earlier call returned, and the store holds the id.
C2_IdempotentSynthesis ==
    (/\ call.op = "get_order"
     /\ ~IsNone(first_lookup)
     /\ first_lookup[1].order_id = call.order_id) =>
        /\ call.result = first_lookup
        /\ call.order_id \in DOMAIN orders

\* C3: cancel_order returns true exactly when the id resolves to an order, the
\* id does not end in -F and the order's status is pending or processing; when
\* it returns true the order's status is cancelled afterwards.
C3_CancelExactlyWhen ==
    call.op = "cancel_order" =>
        /\ call.result =
              (/\ (call.order_id \in DOMAIN prev_orders \/ ~Unresolvable(call.order_id))
               /\ ~EndsWith(call.order_id, <<"-", "F">>)
               /\ StatusBefore(call.order_id) \in {"pending", "processing"})
        /\ call.result => orders[call.order_id].status = "cancelled"

\* cancel_order has just cancelled an order
C3_Witness ==
    /\ call.op = "cancel_order"
    /\ call.result
    /\ orders[call.order_id].status = "cancelled"

\* cancel_order has just refused an order that update_order_status had shipped
C3_WitnessShipped ==
    /\ call.op = "cancel_order"
    /\ ~call.result
    /\ call.order_id \in DOMAIN prev_orders
    /\ prev_orders[call.order_id].status = "shipped"

\* C4: cancel_order on a shipped or delivered order returns false, and whenever
\* cancel_order returns false every field of the order it resolved, and the
\* rest of the store, is as before the call (a record synthesized by the call
\* is stored as synthesized).
C4_RefusalChangesNothing ==
    call.op = "cancel_order" =>
        /\ (/\ call.order_id \in DOMAIN orders
            /\ StatusBefore(call.order_id) \in {"shipped", "delivered"})
              => ~call.result
        /\ ~call.result =>
              /\ \A k \in DOMAIN prev_orders : orders[k] = prev_orders[k]
              /\ \A k \in DOMAIN orders \ DOMAIN prev_orders :
                    k = call.order_id /\ orders[k] \in Synthesized(k)

\* cancel_order has just refused a delivered order that was in the store
C4_Witness ==
    /\ call.op = "cancel_order"
    /\ ~call.result
    /\ call.order_id \in DOMAIN prev_orders
    /\ prev_orders[call.order_id].status = "delivered"

\* C5: cancel_order on an id ending in -F returns false whatever the order's
\* status is, and leaves the status as the call found it.
C5_ForcedFailure ==
    (call.op = "cancel_order" /\ EndsWith(call.order_id, <<"-", "F">>)) =>
        /\ ~call.result
        /\ orders[call.order_id].status = StatusBefore(call.order_id)

\* cancel_order has just refused an order ending in -F that
\* update_order_status had set to processing
C5_Witness ==
    /\ call.op = "cancel_order"
    /\ EndsWith(call.order_id, <<"-", "F">>)
    /\ call.order_id \in DOMAIN prev_orders
    /\ prev_orders[call.order_id].status = "processing"
    /\ ~call.result

----------------------------------------------------------------------------
(* Properties of the Support Service *)

\* the order the last call looked up was there, or could be synthesized
Resolved(order_id) ==
    order_id \in DOMAIN prev_orders \/ ~Unresolvable(order_id)

\* the last call changed no order: orders in the store are as before, and the
\* only new one is the looked-up order, as synthesized
OrdersAsResolved ==
    /\ \A k \in DOMAIN prev_orders : orders[k] = prev_orders[k]
    /\ \A k \in DOMAIN orders \ DOMAIN prev_orders :
          k = call.order_id /\ orders[k] \in Synthesized(k)

\* C6: cancel_order of the service on a delivered, cancelled or shipped order
\* returns the rejection text of that status, does not call the Data
\* Strategy's cancel_order, and leaves the order unchanged.
C6_CancelRejected ==
    (/\ call.op = "server.cancel_order"
     /\ Resolved(call.order_id)
     /\ StatusBefore(call.order_id) \in {"delivered", "cancelled", "shipped"}) =>
        /\ call.result =
              IF StatusBefore(call.order_id) = "shipped"
              THEN <<"Order ">> \o call.order_id
                     \o <<" has already shipped. Please use our return process instead.">>
              ELSE <<"Order ">> \o call.order_id
                     \o <<" cannot be cancelled as it is already ",
                          StatusBefore(call.order_id), ".">>
        /\ ~call.delegated
        /\ ~call.caught
        /\ OrdersAsResolved
        /\ orders[call.order_id].status = StatusBefore(call.order_id)

\* the service has just rejected the cancellation of a shipped order
C6_Witness ==
    /\ call.op = "server.cancel_order"
    /\ call.order_id \in DOMAIN orders
    /\ orders[call.order_id].status = "shipped"
    /\ ~call.delegated

\* C7: on an order that is none of delivered, cancelled, shipped, cancel_order
\* of the service calls the Data Strategy's cancel_order and returns the
\* "successfully cancelled" text exactly when that call returned true (the
\* order is then cancelled); otherwise it returns the "Unable to cancel order"
\* text and the order is unchanged.  Ids ending in -F and failed, in_transit
\* and ready_for_pickup orders get the "Unable to cancel order" text.
C7_CancelDelegated ==
    (/\ call.op = "server.cancel_order"
     /\ Resolved(call.order_id)
     /\ StatusBefore(call.order_id) \notin {"delivered", "cancelled", "shipped"}) =>
        /\ call.delegated
        /\ ~call.caught
        /\ IF call.success
           THEN /\ call.result =
                     <<"Order ">> \o call.order_id
                        \o <<" has been successfully cancelled. You will receive a confirmation email shortly, and any charges will be refunded within 3-5 business days.">>
                /\ orders[call.order_id].status = "cancelled"
           ELSE /\ call.result =
                     <<"Unable to cancel order ">> \o call.order_id
                        \o <<". Please contact customer service for assistance.">>
                /\ OrdersAsResolved
                /\ orders[call.order_id].status = StatusBefore(call.order_id)
        /\ (\/ EndsWith(call.order_id, <<"-", "F">>)
            \/ StatusBefore(call.order_id) \in {"failed", "in_transit", "ready_for_pickup"})
              => Contains(call.result, "Unable to cancel order ")

\* the service has just cancelled an order
C7_Witness ==
    /\ call.op = "server.cancel_order"
    /\ call.delegated
    /\ call.success
    /\ orders[call.order_id].status = "cancelled"

\* the service has just answered "Unable to cancel" for an in_transit order
C7_WitnessUnable ==
    /\ call.op = "server.cancel_order"
    /\ call.delegated
    /\ ~call.success
    /\ orders[call.order_id].status = "in_transit"

\* C8: process_return on an order that is neither delivered nor shipped
\* returns the text with "cannot be returned yet", leaves the returns store
\* as it was and changes no order.
C8_ReturnRejected ==
    (/\ call.op = "server.process_return"
     /\ Resolved(call.order_id)
     /\ StatusBefore(call.order_id) \notin {"delivered", "shipped"}) =>
        /\ Contains(call.result,
                    " and cannot be returned yet. Returns are available after delivery.")
        /\ ~call.caught
        /\ returns = prev_returns
        /\ OrdersAsResolved
        /\ orders[call.order_id].status = StatusBefore(call.order_id)

\* the service has just refused the return of a processing order
C8_Witness ==
    /\ call.op = "server.process_return"
    /\ call.order_id \in DOMAIN orders
    /\ orders[call.order_id].status = "processing"
    /\ ~call.caught

\* the items process_return hands to initiate_return
ReturnedItems ==
    IF IsNone(call.item_ids) \/ call.item_ids = Some(<<>>)
    THEN [i \in 1..Len(orders[call.order_id].entries) |->
             orders[call.order_id].entries[i].product_id]
    ELSE call.item_ids[1]

\* C9: process_return on a delivered or shipped order stores one Return for
\* the order, and returns a text with "Return initiated" and that Return's id;
\* the Return's items are the supplied item_ids, or the product ids of all the
\* entries of the order when item_ids is absent or empty.
C9_ReturnInitiated ==
    (/\ call.op = "server.process_return"
     /\ Resolved(call.order_id)
     /\ StatusBefore(call.order_id) \in {"delivered", "shipped"}) =>
        /\ ~call.caught
        /\ Contains(call.result, "Return initiated for order ")
        /\ \E rid \in DOMAIN returns :
              /\ DOMAIN returns = DOMAIN prev_returns \cup {rid}
              /\ \A k \in DOMAIN prev_returns \ {rid} : returns[k] = prev_returns[k]
              /\ returns[rid].return_id = rid
              /\ returns[rid].order_id = call.order_id
              /\ returns[rid].items = ReturnedItems
              /\ HasSubstring(call.result, <<"Return ID: ">> \o rid \o <<"\n">>)
              /\ HasSubstring(call.result,
                              <<"Items: ">> \o Join(ReturnedItems) \o <<"\n\n">>)

\* the service has just initiated a return with an empty item list
C9_Witness ==
    /\ call.op = "server.process_return"
    /\ call.item_ids = Some(<<>>)
    /\ Contains(call.result, "Return initiated for order ")
    /\ \E rid \in DOMAIN returns : Len(returns[rid].items) > 0

\* the service has just initiated a return of the supplied items
C9_WitnessSupplied ==
    /\ call.op = "server.process_return"
    /\ ~IsNone(call.item_ids)
    /\ Len(call.item_ids[1]) > 0
    /\ \E rid \in DOMAIN returns : returns[rid].items = call.item_ids[1]

\* C10: on an id that does not resolve to an order, get_order_status,
\* cancel_order and process_return of the service return the "Order <id> not
\* found" text and track_package (by order id) returns the "No tracking
\* information found" text; nothing is raised and both stores are unchanged.
C10_NotFound ==
    (/\ call.op \in {"server.get_order_status", "server.cancel_order",
                     "server.process_return", "server.track_package"}
     /\ ~Resolved(call.order_id)
     /\ call.op = "server.track_package" => call.identifier_type = "order") =>
        /\ call.result =
              IF call.op = "server.track_package"
              THEN <<"No tracking information found for order ">>
                      \o call.order_id \o <<".">>
              ELSE <<"Order ">> \o call.order_id
                      \o <<" not found. Please check the order number and try again.">>
        /\ ~call.caught
        /\ orders = prev_orders
        /\ returns = prev_returns

\* track_package has just answered for an id that does not resolve
C10_Witness ==
    /\ call.op = "server.track_package"
    /\ call.identifier_type = "order"
    /\ Unresolvable(call.order_id)
    /\ Contains(call.result, "No tracking information found for order ")

\* process_return has just answered for an id that does not resolve
C10_WitnessReturn ==
    /\ call.op = "server.process_return"
    /\ Unresolvable(call.order_id)
    /\ Contains(call.result, "Order ")

----------------------------------------------------------------------------
(* Properties of the Support Service: failures and rendering *)

ServiceOperations == OrderOperations \cup {"server.get_support_info"}

\* C11: whenever a Data Strategy call or the formatting raises in one of the
\* five operations of the service, the operation returns its fixed apology
\* string: a call in which something was raised still completes with a text.
C11_ApologyOnException ==
    (call.op \in ServiceOperations /\ call.caught) =>
        call.result =
           CASE call.op = "server.get_order_status" ->
                  <<"I encountered an error while checking your order status. Please try again later.">>
             [] call.op = "server.cancel_order" ->
                  <<"I encountered an error while processing your cancellation. Please try again later.">>
             [] call.op = "server.process_return" ->
                  <<"I encountered an error while processing your return. Please try again later.">>
             [] call.op = "server.track_package" ->
                  <<"I encountered an error while tracking your package. Please try again later.">>
             [] call.op = "server.get_support_info" ->
                  <<"I encountered an error. Please contact customer support at 1-800-SUPPORT.">>

\* process_return has just completed with a text although the Data Strategy raised
C11_Witness ==
    /\ call.op = "server.process_return"
    /\ call.caught
    /\ call.strategy_raised
    /\ Len(call.result) = 1

\* track_package has just completed although the formatting raised
C11_WitnessFormatting ==
    /\ call.op = "server.track_package"
    /\ call.caught
    /\ "strategy_raised" \notin DOMAIN call

\* the Data Strategy gave the last call a tracking record for the order
HasTracking(order_id) ==
    /\ order_id \in DOMAIN orders
    /\ ~IsNone(orders[order_id].tracking_number)

\* C12: track_package by order id, on an order for which the Data Strategy
\* returns a tracking record, returns a text that starts with "Package
\* Tracking:" and carries the tracking number, carrier, status and last update
\* of the record; it is not the apology.
C12_TrackPackageRenders ==
    (/\ call.op = "server.track_package"
     /\ call.identifier_type = "order"
     /\ HasTracking(call.order_id)) =>
        /\ ~call.caught
        /\ call.result[1] = "Package Tracking: "
        /\ HasSubstring(call.result,
                        <<"Package Tracking: ">>
                           \o orders[call.order_id].tracking_number[1] \o <<"\n">>)
        /\ Contains(call.result, "Carrier: ")
        /\ Contains(call.result, "Current Status: ")
        /\ Contains(call.result, "Last Update: ")

\* the head of the text of get_order_status: status, order date and total
StatusHead(order) ==
    <<"Order ">> \o order.order_id \o <<" Status: ", Title(order.status), "\n">>
        \o <<"Order Date: ">> \o FormatDate(order.created_at) \o <<"\n">>
        \o <<"Total: ">> \o FormatMoney(order.total_amount) \o <<"\n">>

\* the text of get_order_status for the order has the detail of its status
StatusDetail(order, text) ==
    /\ SubSeq(text, 1, Len(StatusHead(order))) = StatusHead(order)
    /\ CASE order.status \in {"shipped", "in_transit", "delivered"} ->
              ~IsNone(order.tracking_number) =>
                 /\ HasSubstring(text, <<"\nTracking Number: ">>
                                          \o order.tracking_number[1] \o <<"\n">>)
                 /\ Contains(text, "Carrier: ")
                 /\ order.status = "delivered" =>
                       /\ Contains(text, "Delivered on: ")
                       /\ Contains(text, "\nYour package has been successfully delivered!")
         [] order.status = "ready_for_pickup" ->
              Contains(text, "\nYour order is ready for pickup at our store location.\n")
         [] order.status = "cancelled" ->
              /\ Contains(text, "\nThis order has been cancelled.\n")
              /\ Contains(text, "If you were charged, the refund will appear in 3-5 business days.")
         [] order.status = "failed" ->
              /\ Contains(text, "\nThere was an issue processing this order.\n")
              /\ Contains(text, "Please contact customer service for assistance.")
         [] OTHER -> text = StatusHead(order)

\* C13: get_order_status on an order that resolves returns the status, order
\* date and total, followed by the detail of the status: the tracking block
\* for shipped, in_transit and delivered orders with tracking (with "Delivered
\* on:" and "successfully delivered" for delivered), the pickup instructions,
\* the refund note, the escalation note, and nothing for pending and
\* processing.
C13_StatusDetail ==
    (call.op = "server.get_order_status" /\ Resolved(call.order_id)) =>
        /\ ~call.caught
        /\ StatusDetail(orders[call.order_id], call.result)

----------------------------------------------------------------------------
(* Properties of tracking, returns and synthesis in the Data Strategy *)

Trackable == {"shipped", "delivered", "in_transit", "failed"}

\* the order the last call resolved had no tracking number when it was resolved
NoTrackingBefore(order_id) ==
    IF order_id \in DOMAIN prev_orders
    THEN IsNone(prev_orders[order_id].tracking_number)
    ELSE \A o \in Synthesized(order_id) : IsNone(o.tracking_number)

\* C14: get_order_tracking returns absent exactly when the id does not resolve
\* to an order, or the resolved order has no tracking number and its status is
\* none of shipped, delivered, in_transit, failed; otherwise it returns a
\* tracking record with the tracking number of the order.
C14_TrackingAbsentExactlyWhen ==
    call.op = "get_order_tracking" =>
        /\ IsNone(call.result) =
              (\/ ~Resolved(call.order_id)
               \/ /\ NoTrackingBefore(call.order_id)
                  /\ StatusBefore(call.order_id) \notin Trackable)
        /\ ~IsNone(call.result) =>
              /\ orders[call.order_id].tracking_number
                    = Some(call.result[1].tracking_number)
              /\ (/\ call.order_id \in DOMAIN prev_orders
                  /\ ~NoTrackingBefore(call.order_id))
                    => orders[call.order_id].tracking_number
                          = prev_orders[call.order_id].tracking_number

\* get_order_tracking has just returned a record for a failed order that had
\* no tracking number
C14_Witness ==
    /\ call.op = "get_order_tracking"
    /\ ~IsNone(call.result)
    /\ call.order_id \in DOMAIN prev_orders
    /\ prev_orders[call.order_id].status = "failed"
    /\ IsNone(prev_orders[call.order_id].tracking_number)

\* get_order_tracking has just returned absent for a stored order
C14_WitnessAbsent ==
    /\ call.op = "get_order_tracking"
    /\ IsNone(call.result)
    /\ call.order_id \in DOMAIN orders

\* C15: for an id ending in -F, get_order_tracking returns, in every reachable
\* state, a tracking record with status "lost", no estimated delivery and a
\* history of two events.
C15_LostPackage ==
    (call.op = "get_order_tracking" /\ EndsWith(call.order_id, <<"-", "F">>)) =>
        /\ ~IsNone(call.result)
        /\ call.result[1].status = "lost"
        /\ IsNone(call.result[1].estimated_delivery)
        /\ Len(call.result[1].history) = 2

\* C16: initiate_return succeeds for every order id, item list and reason,
\* whether or not the order exists or is returnable: it returns a Return with
\* status "initiated" and the given order_id, items and reason, the returns
\* store holds that Return under its return_id afterwards, and the order store
\* is unchanged (no order is synthesized).
C16_InitiateReturnAlways ==
    (call.op = "initiate_return") =>
        /\ call.result.status = "initiated"
        /\ call.result.order_id = call.order_id
        /\ call.result.items = call.items
        /\ call.result.reason = call.reason
        /\ call.result.return_id \in DOMAIN returns
        /\ returns[call.result.return_id] = call.result
        /\ orders = prev_orders

\* initiate_return has just succeeded for an id that resolves to no order
C16_Witness ==
    /\ call.op = "initiate_return"
    /\ Unresolvable(call.order_id)
    /\ call.result.return_id \in DOMAIN returns

\* initiate_return has just succeeded for a stored order that is not returnable
C16_WitnessNotReturnable ==
    /\ call.op = "initiate_return"
    /\ call.order_id \in DOMAIN orders
    /\ orders[call.order_id].status \in {"pending", "cancelled"}
    /\ call.result.return_id \in DOMAIN returns

\* initiate_return has just succeeded for an id that was never looked up and
\* would be synthesized by get_order
C16_WitnessUnseen ==
    /\ call.op = "initiate_return"
    /\ call.order_id \notin DOMAIN orders
    /\ ~Unresolvable(call.order_id)

\* the orders a query has just returned
Range(l) == {l[i] : i \in 1..Len(l)}

\* the order satisfies every key the query of the last call supplied
MatchesQuery(o) ==
    /\ (~IsNone(call.query_params.order_id) =>
            HasSubstring(o.order_id, call.query_params.order_id[1]))
    /\ (~IsNone(call.query_params.customer_id) =>
            o.customer_id = call.query_params.customer_id[1])
    /\ (~IsNone(call.query_params.status) => o.status = call.query_params.status[1])

\* the order is of the customer of the last call and satisfies every filter
\* that call supplied
MatchesFilters(o) ==
    /\ o.customer_id = call.customer_id
    /\ (~IsNone(call.filters) =>
          /\ (~IsNone(call.filters[1].status) => o.status = call.filters[1].status[1])
          /\ (~IsNone(call.filters[1].date_from) =>
                 o.created_at >= call.filters[1].date_from[1]))

\* C17: search_orders and get_customer_orders never add an order to the store
\* and never change one (no synthesis for unseen ids); they return only orders
\* already in the store that satisfy every supplied filter, and
\* get_customer_orders returns them ordered by created_at, newest first.
C17_QueriesOnlyRead ==
    /\ (call.op \in {"search_orders", "get_customer_orders"}) =>
          /\ orders = prev_orders
          /\ \A o \in Range(call.result) :
                o.order_id \in DOMAIN prev_orders /\ prev_orders[o.order_id] = o
    /\ (call.op = "search_orders") => \A o \in Range(call.result) : MatchesQuery(o)
    /\ (call.op = "get_customer_orders") =>
          /\ \A o \in Range(call.result) : MatchesFilters(o)
          /\ \A i, j \in 1..Len(call.result) :
                i < j => call.result[i].created_at >= call.result[j].created_at

\* get_customer_orders has just returned two orders, the synthesized and newer
\* one ahead of the seeded one
C17_Witness ==
    /\ call.op = "get_customer_orders"
    /\ Len(call.result) = 2
    /\ call.result[1].order_id \notin SeedIds
    /\ call.result[1].created_at > call.result[2].created_at

\* search_orders has just been asked for a part of an id that get_order would
\* synthesize and that is not in the store
C17_WitnessUnseen ==
    /\ call.op = "search_orders"
    /\ ~IsNone(call.query_params.order_id)
    /\ \E order_id \in ids \ DOMAIN orders :
          /\ ~Unresolvable(order_id)
          /\ HasSubstring(order_id, call.query_params.order_id[1])
    /\ \A o \in Range(call.result) : o.order_id \in SeedIds

\* a filter of get_customer_orders has just left out an order of the customer
C17_WitnessFiltered ==
    /\ call.op = "get_customer_orders"
    /\ ~IsNone(call.filters)
    /\ \E k \in DOMAIN orders :
          /\ orders[k].customer_id = call.customer_id
          /\ orders[k] \notin Range(call.result)

\* the sum of the entry_amount of the first n entries
RECURSIVE EntryAmounts(_, _)
EntryAmounts(entries, n) ==
    IF n = 0 THEN 0 ELSE EntryAmounts(entries, n - 1) + entries[n].entry_amount

\* C18: every order in the store, seeded at initialization or synthesized on
\* lookup, has total_amount equal to the sum of the entry_amount of its
\* entries, at creation and after any sequence of operations.
C18_TotalIsSumOfEntries ==
    \A k \in DOMAIN orders :
        orders[k].total_amount = EntryAmounts(orders[k].entries, Len(orders[k].entries))

\* the store holds a synthesized order of several entries, one of them of
\* quantity two, and an operation has changed the order since its creation
C18_Witness ==
    /\ call.op \in {"update_order_status", "cancel_order", "get_order_tracking"}
    /\ call.order_id \in (DOMAIN prev_orders) \ SeedIds
    /\ orders[call.order_id] # prev_orders[call.order_id]
    /\ Len(orders[call.order_id].entries) > 1
    /\ \E j \in 1..Len(orders[call.order_id].entries) :
          orders[call.order_id].entries[j].quantity = 2

\* the store holds a seeded order of two entries of several items
C18_WitnessSeeded ==
    \E k \in DOMAIN orders \cap SeedIds :
        /\ Len(orders[k].entries) = 2
        /\ orders[k].entries[2].quantity > 1
        /\ call.op # "__init__"

\* C19: an order get_order synthesizes has a tracking number exactly when the
\* status its suffix gives is shipped, delivered or in_transit; one synthesized
\* as pending, processing, cancelled, failed or ready_for_pickup has none at
\* creation.
C19_TrackingNumberAtCreation ==
    (call.op = "get_order" /\ call.order_id \notin DOMAIN prev_orders
                           /\ ~IsNone(call.result)) =>
        /\ ~IsNone(call.result[1].tracking_number)
              <=> SuffixStatus(call.order_id) \in {"shipped", "delivered", "in_transit"}
        /\ orders[call.order_id].tracking_number = call.result[1].tracking_number
        /\ ~IsNone(call.result[1].tracking_number) =>
              Len(call.result[1].tracking_number[1]) > 1

\* get_order has just synthesized an order with a tracking number for an id
\* ending in -T
C19_Witness ==
    /\ call.op = "get_order"
    /\ call.order_id \notin DOMAIN prev_orders
    /\ EndsWith(call.order_id, <<"-", "T">>)
    /\ ~IsNone(call.result)
    /\ ~IsNone(call.result[1].tracking_number)

\* get_order has just synthesized a failed order without a tracking number
C19_WitnessFailed ==
    /\ call.op = "get_order"
    /\ call.order_id \notin DOMAIN prev_orders
    /\ ~IsNone(call.result)
    /\ call.result[1].status = "failed"
    /\ IsNone(call.result[1].tracking_number)

\* the statuses from which the service lets nothing lead away
SettledStatuses ==
    {"cancelled", "delivered", "shipped", "in_transit", "failed", "ready_for_pickup"}

\* C20: under any sequence of the five operations of the Support Service, the
\* only change of an order's status is a successful cancel_order that takes it
\* from pending or processing to cancelled; an order that is cancelled,
\* delivered, shipped, in_transit, failed or ready_for_pickup keeps its status.
C20_OnlyCancelChangesStatus ==
    \A k \in DOMAIN orders :
        /\ (orders[k].status # StatusBefore(k)) =>
              /\ call.op = "server.cancel_order"
              /\ call.order_id = k
              /\ call.success
              /\ StatusBefore(k) \in {"pending", "processing"}
              /\ orders[k].status = "cancelled"
        /\ (StatusBefore(k) \in SettledStatuses) => orders[k].status = StatusBefore(k)

\* cancel_order of the service has just taken a stored order from pending or
\* processing to cancelled
C20_Witness ==
    /\ call.op = "server.cancel_order"
    /\ call.success
    /\ call.order_id \in DOMAIN prev_orders
    /\ prev_orders[call.order_id].status \in {"pending", "processing"}
    /\ orders[call.order_id].status = "cancelled"

\* cancel_order of the service has just been delegated for an order in transit
\* and has left its status alone
C20_WitnessSettled ==
    /\ call.op = "server.cancel_order"
    /\ call.delegated
    /\ ~call.success
    /\ call.order_id \in DOMAIN orders
    /\ orders[call.order_id].status = "in_transit"

\* an operation of the service other than cancel_order has just acted on a
\* cancelled order
C20_WitnessAfterCancel ==
    /\ call.op \in {"server.get_order_status", "server.process_return", "server.track_package"}
    /\ call.order_id \in DOMAIN prev_orders
    /\ prev_orders[call.order_id].status = "cancelled"
    /\ call.order_id \notin SeedIds

\* get_order of an id in the store returns the stored record as it is
StoredRecordReturned ==
    (call.op = "get_order" /\ call.order_id \in DOMAIN prev_orders) =>
        /\ call.result = Some(prev_orders[call.order_id])
        /\ orders = prev_orders

\* C21 as stated: get_order of an id in the store returns the stored record as
\* it is, and once cancel_order has succeeded on an id every later get_order of
\* that id reports status cancelled.
C21_CancelledForGood ==
    /\ StoredRecordReturned
    /\ (call.op = "get_order" /\ call.order_id \in cancelled_ids) =>
          call.result[1].status = "cancelled"

\* C21, amended: get_order of an id in the store returns the stored record as
\* it is and never derives the status from the suffix again; once cancel_order
\* has succeeded on an id, the stored status is cancelled and stays cancelled
\* through every call that is not an update_order_status of that id, so every
\* get_order of the id reports cancelled until update_order_status sets
\* another status.
C21_CancelledUntilUpdated ==
    /\ []StoredRecordReturned
    /\ [][\A k \in cancelled_ids' :
            (/\ ~(call'.op = "update_order_status" /\ call'.order_id = k)
             /\ (k \in cancelled_ids => orders[k].status = "cancelled"))
            => orders'[k].status = "cancelled"]_vars

\* get_order has just reported cancelled for an id ending in -P on which
\* cancel_order succeeded earlier
C21_Witness ==
    /\ call.op = "get_order"
    /\ call.order_id \in cancelled_ids
    /\ EndsWith(call.order_id, <<"-", "P">>)
    /\ call.result[1].status = "cancelled"

\* the same for an id without a suffix that was synthesized as pending
C21_WitnessUnsuffixed ==
    /\ call.op = "get_order"
    /\ call.order_id \in cancelled_ids \ SeedIds
    /\ SuffixStatus(call.order_id) = "pending"
    /\ call.result[1].status = "cancelled"

\* C22: of the operations of the Data Strategy only cancel_order and
\* update_order_status change a field of an order already in the store;
\* get_order, get_order_tracking, initiate_return, search_orders and
\* get_customer_orders leave every field of every stored order, the
\* tracking_number too, as it was.
C22_ReadersLeaveOrdersAlone ==
    (call.op \in {"get_order", "get_order_tracking", "initiate_return",
                  "search_orders", "get_customer_orders"}) =>
        \A k \in DOMAIN prev_orders : k \in DOMAIN orders /\ orders[k] = prev_orders[k]

\* C23: every initiate_return call generates a return_id that is not yet a key
\* of the returns store, so the store grows by exactly one Return per call and
\* a Return stored earlier is never replaced or changed by a later call.
C23_FreshReturnId ==
    (call.op = "initiate_return") =>
        /\ call.result.return_id \notin DOMAIN prev_returns
        /\ Cardinality(DOMAIN returns) = Cardinality(DOMAIN prev_returns) + 1
        /\ \A k \in DOMAIN prev_returns :
              k \in DOMAIN returns /\ returns[k] = prev_returns[k]

\* the text is the success message of cancel_order
IsSuccessText(text) ==
    Len(text) > 0 /\ HasSubstring(text, <<" has been successfully cancelled. You will receive a confirmation email shortly, and any charges will be refunded within 3-5 business days.">>)

\* the text is a rejection or the "Unable to cancel" message
IsRefusalText(text) ==
    Len(text) > 0
    /\ \/ text[1] = "Unable to cancel order "
       \/ HasSubstring(text, <<" cannot be cancelled as it is already ">>)
       \/ HasSubstring(text, <<" has already shipped. Please use our return process instead.">>)

\* both requests have finished, on the same order, which was pending or
\* processing when the first of them looked it up
BothDoneOnCancellable ==
    /\ \A t \in Tasks : tasks[t].pc = "done"
    /\ tasks[1].order_id = tasks[2].order_id
    /\ \E t \in Tasks : tasks[t].first \in {"pending", "processing"}

\* C24: when two cancel_order requests of the service on the same pending or
\* processing order run concurrently, interleaved only at their awaits, at most
\* one returns the success message, the other returns a rejection or "Unable
\* to cancel", and the order ends with status cancelled.
C24_OneCancelWins ==
    BothDoneOnCancellable =>
        /\ \E t \in Tasks : IsSuccessText(tasks[t].result)
                              /\ \A u \in Tasks \ {t} : IsRefusalText(tasks[u].result)
        /\ orders[tasks[1].order_id].status = "cancelled"

\* both requests passed the test of the service while the order was still
\* cancellable, one cancelled it and the other was told "Unable to cancel"
C24_Witness ==
    /\ BothDoneOnCancellable
    /\ \A t \in Tasks : tasks[t].first \in {"pending", "processing"}
    /\ \E t \in Tasks : tasks[t].result[1] = "Unable to cancel order "

\* the second request reached the test of the service after the first had
\* cancelled the order and was rejected there
C24_WitnessRejected ==
    /\ BothDoneOnCancellable
    /\ \A t \in Tasks : tasks[t].first \in {"pending", "processing"}
    /\ \E t \in Tasks : HasSubstring(tasks[t].result, <<" cannot be cancelled as it is already ">>)

\* the two records agree on customer id, entries, total amount, addresses
\* and tracking number
SameSynthesis(a, b) ==
    /\ a.customer_id = b.customer_id
    /\ a.entries = b.entries
    /\ a.total_amount = b.total_amount
    /\ a.shipping_address = b.shipping_address
    /\ a.billing_address = b.billing_address
    /\ a.tracking_number = b.tracking_number

\* C25: the same identifier always yields the same synthesized order: the
\* order get_order has just synthesized agrees, on customer id, entries, total
\* amount, address and tracking number, with every order a second synthesis of
\* that id (in another MockDataStrategy of the process) can produce, for every
\* id, also one without a digit.
C25_SameIdSameOrder ==
    (call.op = "get_order" /\ call.order_id \notin DOMAIN prev_orders
                           /\ ~IsNone(call.result)) =>
        \A other \in Synthesized(call.order_id) : SameSynthesis(call.result[1], other)

\* C26: update_order_status returns false and changes nothing, synthesizing no
\* order, when the id is not in the store, also when get_order would create it
\* from its suffix; when the id is in the store it sets the order's status to
\* the given value and returns true.
C26_UpdateOnlyStored ==
    (call.op = "update_order_status") =>
        IF call.order_id \in DOMAIN prev_orders
        THEN /\ call.result
             /\ DOMAIN orders = DOMAIN prev_orders
             /\ orders[call.order_id].status = call.new_status
             /\ \A k \in DOMAIN prev_orders \ {call.order_id} : orders[k] = prev_orders[k]
        ELSE /\ ~call.result
             /\ orders = prev_orders

\* update_order_status has just returned false for an id that is not in the
\* store and that get_order would synthesize
C26_Witness ==
    /\ call.op = "update_order_status"
    /\ call.order_id \notin DOMAIN orders
    /\ ~Unresolvable(call.order_id)
    /\ ~call.result

\* update_order_status has just changed the status of a stored order
C26_WitnessStored ==
    /\ call.op = "update_order_status"
    /\ call.result
    /\ prev_orders[call.order_id].status # call.new_status
    /\ orders[call.order_id].status = call.new_status

\* C27: in every reachable state no key of the order store ends in -E or is
\* ORD-ERROR in any case, every stored order's order_id is its key, and no key
\* is removed; get_order answers absent exactly for the ids that end in -E or
\* are ORD-ERROR in any case, which depends on the id alone, so an id reported
\* not found once is not found for the rest of the process.
C27_ErrorIdsNeverStored ==
    /\ \A k \in DOMAIN orders : ~Unresolvable(k) /\ orders[k].order_id = k
    /\ DOMAIN prev_orders \subseteq DOMAIN orders
    /\ (call.op = "get_order") => (IsNone(call.result) <=> Unresolvable(call.order_id))
    /\ (call.op \in {"get_order", "cancel_order", "get_order_tracking",
                      "update_order_status"} /\ Unresolvable(call.order_id)) =>
          orders = prev_orders

\* cancel_order or get_order_tracking has just looked up an id ending in -E
\* and the store holds the seeded orders only
C27_Witness ==
    /\ call.op \in {"cancel_order", "get_order_tracking"}
    /\ EndsWith(call.order_id, <<"-", "E">>)
    /\ DOMAIN orders = SeedIds

\* the store holds a synthesized order besides the seeded ones
C27_WitnessStored ==
    /\ \E k \in DOMAIN orders : k \notin SeedIds
    /\ call.op = "update_order_status"

\* C28: in every reachable state an order whose status is cancelled has all
\* its entries in status cancelled, and an order of any other status has all
\* its entries active, also after cancel_order has cancelled an order.
C28_EntriesFollowOrder ==
    \A k \in DOMAIN orders :
        \A j \in 1..Len(orders[k].entries) :
            orders[k].entries[j].status =
                IF orders[k].status = "cancelled" THEN "cancelled" ELSE "active"

\* C29: repeated get_order_tracking calls on an order return the same
\* tracking number and the same carrier every time, also when the number is
\* only assigned on the first tracking query (ids ending in -F), and that
\* number is the order's tracking_number as get_order shows it afterwards.
C29_TrackingNumberStable ==
    /\ (call.op = "get_order_tracking" /\ ~IsNone(call.result)) =>
          /\ call.order_id \in DOMAIN first_tracking
          /\ call.result[1].tracking_number = first_tracking[call.order_id].tracking_number
          /\ call.result[1].carrier = first_tracking[call.order_id].carrier
          /\ orders[call.order_id].tracking_number = Some(call.result[1].tracking_number)
    /\ (call.op = "get_order" /\ call.order_id \in DOMAIN first_tracking) =>
          /\ ~IsNone(call.result)
          /\ call.result[1].tracking_number =
                Some(first_tracking[call.order_id].tracking_number)

\* get_order_tracking has just returned a record for an id ending in -F whose
\* number an earlier tracking query assigned
C29_Witness ==
    /\ call.op = "get_order_tracking"
    /\ EndsWith(call.order_id, <<"-", "F">>)
    /\ call.order_id \in DOMAIN prev_orders
    /\ ~IsNone(prev_orders[call.order_id].tracking_number)
    /\ ~IsNone(call.result)

\* get_order has just shown an order ending in -F after a tracking query
C29_WitnessGetOrder ==
    /\ call.op = "get_order"
    /\ EndsWith(call.order_id, <<"-", "F">>)
    /\ call.order_id \in DOMAIN first_tracking

\* get_order_tracking has just returned a record for an order whose status
\* changed after an earlier tracking query
C29_WitnessStatusChanged ==
    /\ call.op = "get_order_tracking"
    /\ call.order_id \in DOMAIN prev_orders
    /\ ~IsNone(prev_orders[call.order_id].tracking_number)
    /\ prev_orders[call.order_id].status = "cancelled"
    /\ ~IsNone(call.result)

\* C30: an order is successfully cancelled at most once: after cancel_order of
\* the service has returned the success message for an order, every later
\* cancel_order on it returns "cannot be cancelled as it is already cancelled",
\* every later process_return on it is rejected with "cannot be returned yet",
\* and get_order_status reports it as Cancelled with the refund note.
C30_CancelledOnce ==
    /\ \A k \in cancelled_ids : k \in DOMAIN orders /\ orders[k].status = "cancelled"
    /\ (call.op = "server.cancel_order" /\ call.order_id \in cancelled_ids) =>
          IF call.success
          THEN StatusBefore(call.order_id) \in {"pending", "processing"}
          ELSE call.result = <<"Order ">> \o call.order_id
                               \o <<" cannot be cancelled as it is already ", "cancelled", ".">>
    /\ (call.op = "server.process_return" /\ call.order_id \in cancelled_ids) =>
          /\ call.result = <<"Order ">> \o call.order_id
                              \o <<" is currently ", "cancelled",
                                   " and cannot be returned yet. Returns are available after delivery.">>
          /\ returns = prev_returns
    /\ (call.op = "server.get_order_status" /\ call.order_id \in cancelled_ids) =>
          /\ HasSubstring(call.result, <<" Status: ", "Cancelled", "\n">>)
          /\ Contains(call.result, "\nThis order has been cancelled.\n")
          /\ Contains(call.result, "If you were charged, the refund will appear in 3-5 business days.")

\* cancel_order of the service has just been refused for an order that an
\* earlier cancel_order of the service cancelled
C30_Witness ==
    /\ call.op = "server.cancel_order"
    /\ call.order_id \in cancelled_ids
    /\ ~call.success

\* process_return has just been rejected for such an order
C30_WitnessReturn ==
    /\ call.op = "server.process_return"
    /\ call.order_id \in cancelled_ids

\* get_order_status has just reported such an order
C30_WitnessStatus ==
    /\ call.op = "server.get_order_status"
    /\ call.order_id \in cancelled_ids

====
